---- MODULE Spec2Model ----
(***************************************************************************)
(* Guardrails backend: policy enforcement, override tokens and the audit   *)
(* ledger (backend/app/policy, backend/app/audit, backend/app/main.py).    *)
(*                                                                         *)
(* Conventions.  An Optional[T] value is a sequence of length at most one: *)
(* None is << >> and a present value x is << x >>.  A Python str that the  *)
(* code inspects character by character is a sequence of characters; a     *)
(* repository or policy name is the sequence of its "/"-separated parts.   *)
(***************************************************************************)
EXTENDS Integers, Sequences, FiniteSets, TLC

VARIABLES
    policies,   \* PolicyEngine.policies: name -> Policy
    events,     \* AuditLogger.events: the in-memory list of AuditEvent
    store,      \* the log directory: day -> sequence of written records
    now,        \* datetime.utcnow(), in hours
    nextId,     \* the next value uuid.uuid4() hands out
    issued,     \* override tokens handed out by create_override_token
    accepted,   \* the overrides analyze_code accepted: which token, when
    cache,      \* a ScanCache: its ttl and its cache dict
    sets,       \* the set calls the ScanCache got since it was new or cleared
    inflight,   \* per thread, the event of a log call between its two steps
    manager,    \* a RulePackManager: its rulesets and its active_ruleset
    ret         \* what the last operation returned to its caller

vars == <<policies, events, store, now, nextId, issued, accepted, cache, sets, inflight, manager, ret>>

None == << >>
Some(x) == << x >>

-----------------------------------------------------------------------------
(* Bounds of the model *)

MaxViolations == 2      \* longest raw violation list given to enforce_policy
MaxEvents == 2          \* most audit events written before the model stops
MaxScans == 2           \* most analyze_code requests served
MaxNow == 40            \* the clock stops advancing at this hour
TickHours == 30         \* the clock advances in steps of this many hours
MaxTokens == 1          \* most override tokens issued
MaxKills == 1           \* most writes cut short by the death of the process
MaxCut == 8             \* most characters of a record written before the death
MaxReasonLen == 1       \* longest free-text override reason
MaxThreads == 2         \* threads that call the AuditLogger at the same time
MaxCacheHours == 2      \* the clock of the cache specification stops here
MaxAICalls == 2         \* replies of the AI service that may differ in a request
MaxDiffLen == 6         \* longest diff text given to parse_diff on its own
MaxCodeLen == 4         \* longest code text given to scan_code on its own
MaxBrokenCodeLen == 2   \* longest code text scanned with a broken pattern table

-----------------------------------------------------------------------------
(* Program constants *)

DigestLen == 64         \* len(hashlib.sha256(...).hexdigest())
TokenTTLHours == 24     \* timedelta(hours=24)
DayHours == 24          \* one audit_%Y%m%d.jsonl file per day
DefaultTTLMinutes == 60 \* ScanCache(ttl_minutes=60)
NotFound == 404                \* HTTPException(status_code=404) of the endpoints
MinutesPerHour == 60    \* timedelta(minutes=...) against a clock in hours

-----------------------------------------------------------------------------
(* app.models enums, as used by the policy engine *)

Modes == {"advisory", "warning", "blocking"}
Categories == {"security", "compliance", "code_quality", "license", "performance"}
Severities == {"info", "low", "medium", "high", "critical"}

\* The kinds of Violation the rule engines emit that the model draws from.
ViolationKinds ==
    { [rule_id |-> "SEC-001", category |-> "security", severity |-> "critical"],
      [rule_id |-> "SEC-003", category |-> "security", severity |-> "high"],
      [rule_id |-> "COMP-001", category |-> "compliance", severity |-> "medium"],
      [rule_id |-> "AI-001", category |-> "code_quality", severity |-> "medium"],
      [rule_id |-> "LICENSE-001", category |-> "license", severity |-> "high"],
      [rule_id |-> "PERF-001", category |-> "performance", severity |-> "low"] }

SeqsUpTo(S, n) == UNION { [1..k -> S] : k \in 0..n }

ViolationLists == SeqsUpTo(ViolationKinds, MaxViolations)

Repos == { <<"acme", "api">>, <<"acme", "web">>, <<"other", "x">> }

-----------------------------------------------------------------------------
(* Policy and PolicyEngine *)

Policy(name, mode, boc, boh, sec, comp, qual) ==
    [ name |-> name, enforcement_mode |-> mode,
      block_on_critical |-> boc, block_on_high |-> boh,
      enable_security_checks |-> sec, enable_compliance_checks |-> comp,
      enable_quality_checks |-> qual ]

default_policy ==
    Policy(<<"default">>, "warning", TRUE, FALSE, TRUE, TRUE, FALSE)

\* repo_name.split("/")[0]
OrgName(repo_name) == << repo_name[1] >>

\* get_policy looking for the organisation before the repository
get_policy_OrgFirst(pols, repo_name) ==
    IF OrgName(repo_name) \in DOMAIN pols THEN pols[OrgName(repo_name)]
    ELSE IF repo_name \in DOMAIN pols THEN pols[repo_name]
    ELSE default_policy

get_policy(pols, repo_name) ==
    IF repo_name \in DOMAIN pols THEN pols[repo_name]
    ELSE IF OrgName(repo_name) \in DOMAIN pols THEN pols[OrgName(repo_name)]
    ELSE default_policy

register_policy(pols, p) ==
    [ n \in (DOMAIN pols) \cup {p.name} |-> IF n = p.name THEN p ELSE pols[n] ]

\* IsFilteredOut with license violations under the security flag as well
IsFilteredOut_LicenseUnderSecurityFlag(v, policy) ==
    \/ v.category \in {"security", "license"} /\ ~policy.enable_security_checks
    \/ v.category = "compliance" /\ ~policy.enable_compliance_checks
    \/ v.category = "code_quality" /\ ~policy.enable_quality_checks

\* the three "continue" branches of the filter loop
IsFilteredOut(v, policy) ==
    \/ v.category = "security" /\ ~policy.enable_security_checks
    \/ v.category = "compliance" /\ ~policy.enable_compliance_checks
    \/ v.category = "code_quality" /\ ~policy.enable_quality_checks

\* sum(1 for v in vs if ...), len([v for v in vs if ...])
CriticalCount(vs) == Cardinality({ i \in DOMAIN vs : vs[i].severity = "critical" })
HighCount(vs) == Cardinality({ i \in DOMAIN vs : vs[i].severity = "high" })
LicenseCount(vs) == Cardinality({ i \in DOMAIN vs : vs[i].category = "license" })

\* SeverityDecision with the high test before the critical test
SeverityDecision_HighFirst(policy, critical_count, high_count) ==
    IF policy.block_on_high /\ high_count > 0
    THEN [ should_block |-> TRUE,
           block_reason |-> Some([cond |-> "high", count |-> high_count]) ]
    ELSE IF policy.block_on_critical /\ critical_count > 0
    THEN [ should_block |-> TRUE,
           block_reason |-> Some([cond |-> "critical", count |-> critical_count]) ]
    ELSE [ should_block |-> FALSE, block_reason |-> None ]

\* SeverityDecision with the elif reading high_count alone
SeverityDecision_IgnoresHighFlag(policy, critical_count, high_count) ==
    IF policy.block_on_critical /\ critical_count > 0
    THEN [ should_block |-> TRUE,
           block_reason |-> Some([cond |-> "critical", count |-> critical_count]) ]
    ELSE IF high_count > 0
    THEN [ should_block |-> TRUE,
           block_reason |-> Some([cond |-> "high", count |-> high_count]) ]
    ELSE [ should_block |-> FALSE, block_reason |-> None ]

\* the if / elif on the severity counts
SeverityDecision(policy, critical_count, high_count) ==
    IF policy.block_on_critical /\ critical_count > 0
    THEN [ should_block |-> TRUE,
           block_reason |-> Some([cond |-> "critical", count |-> critical_count]) ]
    ELSE IF policy.block_on_high /\ high_count > 0
    THEN [ should_block |-> TRUE,
           block_reason |-> Some([cond |-> "high", count |-> high_count]) ]
    ELSE [ should_block |-> FALSE, block_reason |-> None ]

\* LicenseForcesBlock taken only when the policy blocks on some severity
LicenseForcesBlock_NeedsSeverityFlag(policy, license_count) ==
    /\ license_count > 0 /\ policy.enforcement_mode = "blocking"
    /\ (policy.block_on_critical \/ policy.block_on_high)

\* the license check that follows it
LicenseForcesBlock(policy, license_count) ==
    license_count > 0 /\ policy.enforcement_mode = "blocking"

\* enforce_policy with result.violations left as the raw list
enforce_policy_KeepsRawList(pols, violations, repo_name) ==
    LET policy == get_policy(pols, repo_name)
        kept == SelectSeq(violations, LAMBDA v : ~IsFilteredOut(v, policy))
        dropped == SelectSeq(violations, LAMBDA v : IsFilteredOut(v, policy))
        sev == SeverityDecision(policy, CriticalCount(kept), HighCount(kept))
        lic == LicenseForcesBlock(policy, LicenseCount(kept))
    IN  [ violations |-> violations,
          filtered_violations |-> dropped,
          should_block |-> IF lic THEN TRUE ELSE sev.should_block,
          block_reason |-> IF lic
                           THEN Some([cond |-> "license", count |-> LicenseCount(kept)])
                           ELSE sev.block_reason,
          enforcement_mode |-> policy.enforcement_mode ]

enforce_policy(pols, violations, repo_name) ==
    LET policy == get_policy(pols, repo_name)
        kept == SelectSeq(violations, LAMBDA v : ~IsFilteredOut(v, policy))
        dropped == SelectSeq(violations, LAMBDA v : IsFilteredOut(v, policy))
        sev == SeverityDecision(policy, CriticalCount(kept), HighCount(kept))
        lic == LicenseForcesBlock(policy, LicenseCount(kept))
    IN  [ violations |-> kept,
          filtered_violations |-> dropped,
          should_block |-> IF lic THEN TRUE ELSE sev.should_block,
          block_reason |-> IF lic
                           THEN Some([cond |-> "license", count |-> LicenseCount(kept)])
                           ELSE sev.block_reason,
          enforcement_mode |-> policy.enforcement_mode ]

-----------------------------------------------------------------------------
(* Override tokens (PolicyEngine.create_override_token / validate_override_token) *)

\* A token is a str: a sequence of characters.  The hex digits are 0..15;
\* NonHex stands for any other character.
HexDigits == 0..15
NonHex == 16

RepoSeq == << <<"acme", "api">>, <<"acme", "web">>, <<"other", "x">> >>
RepoCode(repo_name) == CHOOSE i \in DOMAIN RepoSeq : RepoSeq[i] = repo_name

\* Free text is a sequence of pieces: a brace, or a run of other characters.
NoReasonProvided == << "No reason provided" >>
ReasonChars == {"{", "}"}
TextChars == ReasonChars \cup {"a", "No reason provided"}
CharCode(c) == CASE c = "a" -> 1 [] c = "{" -> 2 [] c = "}" -> 3 [] OTHER -> 0

RECURSIVE TextCode(_)
TextCode(t) == IF t = << >> THEN 0 ELSE CharCode(Head(t)) + 4 * TextCode(Tail(t))

\* json.dumps(payload): the payload holds repo, reason, timestamp and expires
PayloadCode(payload) ==
    RepoCode(payload.repo) + 4 * payload.timestamp + 256 * TextCode(payload.reason)

\* hashlib.sha256(payload_str.encode()).hexdigest(): DigestLen hex digits that
\* depend on the whole payload
hexdigest(code) ==
    [ i \in 1..DigestLen |->
        CASE i % 4 = 1 -> code % 16
          [] i % 4 = 2 -> (code \div 16) % 16
          [] i % 4 = 3 -> (code \div 256) % 16
          [] OTHER -> (code \div 4096) % 16 ]

create_override_token(repo_name, reason, utcnow) ==
    hexdigest(PayloadCode([ repo |-> repo_name, reason |-> reason,
                            timestamp |-> utcnow,
                            expires |-> utcnow + TokenTTLHours ]))

\* validate_override_token also asking that the token was issued for the
\* repository
validate_override_token_ChecksIssuer(token, repo_name) ==
    /\ Len(token) = DigestLen
    /\ \E t \in issued : t.token = token /\ t.repo_name = repo_name

validate_override_token(token, repo_name) == Len(token) = DigestLen

-----------------------------------------------------------------------------
(* AuditEvent and its JSON text (AuditEvent.to_json, json.loads) *)

\* AuditEvent(event_id=..., timestamp=..., **a): a holds the other fields
AuditEvent(event_id, timestamp, a) ==
    [ event_id |-> event_id, timestamp |-> timestamp, repo_name |-> a.repo_name,
      pr_number |-> a.pr_number, commit_hash |-> a.commit_hash,
      violation_count |-> a.violation_count, critical_count |-> a.critical_count,
      high_count |-> a.high_count, enforcement_action |-> a.enforcement_action,
      blocked |-> a.blocked, override_applied |-> a.override_applied,
      override_reason |-> a.override_reason, pr_url |-> None,
      scan_id |-> a.scan_id, violations_summary |-> a.violations_summary ]

\* The fields whose JSON text holds no free text and no nesting.
ScalarKeys == { "event_id", "timestamp", "repo_name", "pr_number", "commit_hash",
                "violation_count", "critical_count", "high_count",
                "enforcement_action", "blocked", "override_applied",
                "pr_url", "scan_id" }

Scalars(e) == [ k \in ScalarKeys |-> e[k] ]

\* One character of a log file.  Braces, brackets, quotes, null and newline
\* are characters of their own; the text of the scalar fields of an event
\* and the text of the three fields of a summary entry are one unit each.
Ch(c) == [ c |-> c, v |-> None ]
Unit(c, v) == [ c |-> c, v |-> v ]

JsonText(t) == << Ch("\"") >> \o [ i \in DOMAIN t |-> Ch(t[i]) ] \o << Ch("\"") >>

JsonOptText(o) == IF o = None THEN << Ch("null") >> ELSE JsonText(o[1])

RECURSIVE JsonItems(_)
JsonItems(items) ==
    IF items = << >> THEN << >>
    ELSE << Ch("{"), Unit("item", Head(items)), Ch("}") >> \o JsonItems(Tail(items))

JsonSummary(o) ==
    IF o = None THEN << Ch("null") >>
    ELSE << Ch("[") >> \o JsonItems(o[1]) \o << Ch("]") >>

\* event.to_json() + "\n"
to_json_line(e) ==
    << Ch("{"), Unit("scalars", Scalars(e)) >>
        \o JsonOptText(e.override_reason)
        \o JsonSummary(e.violations_summary)
        \o << Ch("}"), Ch("\n") >>

\* position of the first character c at or after position i, 0 if none
RECURSIVE FindChar(_, _, _)
FindChar(s, c, i) ==
    IF i > Len(s) THEN 0
    ELSE IF s[i].c = c THEN i
    ELSE FindChar(s, c, i + 1)

Failed == [ ok |-> FALSE, val |-> None, next |-> 0 ]

\* a JSON string or null starting at position i
ParseOptText(s, i) ==
    IF i > Len(s) THEN Failed
    ELSE IF s[i].c = "null" THEN [ ok |-> TRUE, val |-> None, next |-> i + 1 ]
    ELSE IF s[i].c # "\"" THEN Failed
    ELSE LET j == FindChar(s, "\"", i + 1) IN
         IF j = 0 \/ \E k \in (i + 1)..(j - 1) : s[k].c \notin TextChars THEN Failed
         ELSE [ ok |-> TRUE,
                val |-> Some([ k \in 1..(j - i - 1) |-> s[i + k].c ]),
                next |-> j + 1 ]

\* a JSON list of summary entries or null starting at position i
ParseSummary(s, i) ==
    IF i > Len(s) THEN Failed
    ELSE IF s[i].c = "null" THEN [ ok |-> TRUE, val |-> None, next |-> i + 1 ]
    ELSE IF s[i].c # "[" THEN Failed
    ELSE LET j == FindChar(s, "]", i + 1)
             n == (j - i - 1) \div 3
         IN  IF \/ j = 0
                \/ (j - i - 1) % 3 # 0
                \/ \E k \in 1..n : \/ s[i + 3 * k - 2].c # "{"
                                   \/ s[i + 3 * k - 1].c # "item"
                                   \/ s[i + 3 * k].c # "}"
             THEN Failed
             ELSE [ ok |-> TRUE,
                    val |-> Some([ k \in 1..n |-> s[i + 3 * k - 1].v ]),
                    next |-> j + 1 ]

\* json.loads(obj_str) followed by _create_event_from_dict: the event the
\* text describes, or None when either step raises (JSONDecodeError for text
\* that is not one JSON object, KeyError for an object without the event's
\* keys, such as {} or a summary entry).
LoadObject(s) ==
    IF Len(s) < 2 \/ s[1].c # "{" \/ s[2].c # "scalars" THEN None
    ELSE LET r == ParseOptText(s, 3) IN
         IF ~r.ok THEN None
         ELSE LET v == ParseSummary(s, r.next) IN
              IF ~v.ok \/ v.next # Len(s) \/ s[Len(s)].c # "}" THEN None
              ELSE Some([ k \in ScalarKeys \cup {"override_reason", "violations_summary"} |->
                            CASE k = "override_reason" -> r.val
                              [] k = "violations_summary" -> v.val
                              [] OTHER -> s[2].v[k] ])

-----------------------------------------------------------------------------
(* AuditLogger: the durable store and its replay *)

\* audit_%Y%m%d.jsonl of datetime.utcnow()
DayOf(t) == t \div DayHours

RECURSIVE Flatten(_)
Flatten(records) ==
    IF records = << >> THEN << >> ELSE Head(records) \o Flatten(Tail(records))

\* f.read() of one daily file
FileContent(st, day) == Flatten(st[day])

\* open(filename, "a"); f.write(text)
AppendToFile(st, day, text) ==
    [ d \in (DOMAIN st) \cup {day} |->
        IF d = day
        THEN (IF day \in DOMAIN st THEN Append(st[day], text) ELSE << text >>)
        ELSE st[d] ]

_write_event(st, e, utcnow) == AppendToFile(st, DayOf(utcnow), to_json_line(e))

\* the brace-counting loop of load_audit_logs: the texts it cuts out of one
\* file's content
RECURSIVE ScanObjects(_, _, _, _, _)
ScanObjects(content, i, current_obj_start, brace_count, objects) ==
    IF i > Len(content) THEN objects
    ELSE IF content[i].c = "{"
    THEN ScanObjects(content, i + 1,
                     IF brace_count = 0 THEN i ELSE current_obj_start,
                     brace_count + 1, objects)
    ELSE IF content[i].c = "}"
    THEN ScanObjects(content, i + 1, current_obj_start, brace_count - 1,
                     IF brace_count - 1 = 0
                     THEN Append(objects, SubSeq(content, current_obj_start, i))
                     ELSE objects)
    ELSE ScanObjects(content, i + 1, current_obj_start, brace_count, objects)

\* the "for obj_str in objects" loop: append every event that loads
RECURSIVE LoadObjects(_, _)
LoadObjects(evs, objects) ==
    IF objects = << >> THEN evs
    ELSE LoadObjects(evs \o LoadObject(Head(objects)), Tail(objects))

\* load_audit_logs, the files taken in the order os.listdir returned them
RECURSIVE load_audit_logs(_, _, _)
load_audit_logs(evs, st, listing) ==
    IF listing = << >> THEN evs
    ELSE load_audit_logs(
             LoadObjects(evs, ScanObjects(FileContent(st, Head(listing)), 1, 1, 0, << >>)),
             st, Tail(listing))

\* os.listdir(log_dir) returns the files in arbitrary order
Listings(st) ==
    { l \in [1..Cardinality(DOMAIN st) -> DOMAIN st] :
        \A i, j \in DOMAIN l : i # j => l[i] # l[j] }

\* Logged without the call of _write_event
Logged_MemoryOnly(evs, st, e, utcnow) ==
    [ events |-> Append(evs, e), store |-> st, event |-> e ]

\* the events and the store after self.events.append(event); self._write_event(event)
Logged(evs, st, e, utcnow) ==
    [ events |-> Append(evs, e), store |-> _write_event(st, e, utcnow), event |-> e ]

log_scan(evs, st, id, utcnow, a) ==
    Logged(evs, st,
           AuditEvent(id, utcnow,
                      [ repo_name |-> a.repo_name, pr_number |-> a.pr_number,
                        commit_hash |-> a.commit_hash,
                        violation_count |-> a.violation_count,
                        critical_count |-> a.critical_count,
                        high_count |-> a.high_count,
                        enforcement_action |-> a.enforcement_action,
                        blocked |-> a.blocked,
                        override_applied |-> FALSE, override_reason |-> None,
                        scan_id |-> a.scan_id,
                        violations_summary |-> a.violations_summary ]),
           utcnow)

log_override(evs, st, id, utcnow, repo_name, pr_number, override_reason) ==
    Logged(evs, st,
           AuditEvent(id, utcnow,
                      [ repo_name |-> repo_name, pr_number |-> pr_number,
                        commit_hash |-> "", violation_count |-> 0,
                        critical_count |-> 0, high_count |-> 0,
                        enforcement_action |-> "override", blocked |-> FALSE,
                        override_applied |-> TRUE,
                        override_reason |-> Some(override_reason),
                        scan_id |-> None, violations_summary |-> None ]),
           utcnow)

get_events_by_repo(evs, repo_name) ==
    SelectSeq(evs, LAMBDA e : e.repo_name = repo_name)

get_events_by_date_range(evs, start_date, end_date) ==
    SelectSeq(evs, LAMBDA e : start_date <= e.timestamp /\ e.timestamp <= end_date)

RECURSIVE SumOver(_, _)
SumOver(evs, k) == IF evs = << >> THEN 0 ELSE Head(evs)[k] + SumOver(Tail(evs), k)

get_violations_summary(evs) ==
    [ total_scans |-> Len(evs),
      total_violations |-> SumOver(evs, "violation_count"),
      total_critical |-> SumOver(evs, "critical_count"),
      total_high |-> SumOver(evs, "high_count"),
      total_blocked |-> Cardinality({ i \in DOMAIN evs : evs[i].blocked }),
      total_overrides |-> Cardinality({ i \in DOMAIN evs : evs[i].override_applied }) ]

\* A file name is a directory, a stem and an extension; the file of day d
\* in the log directory is audit_logs/<d>.jsonl.
FileName(dir, stem, ext) == [ dir |-> dir, stem |-> stem, ext |-> ext ]

\* export_audit_log writing whatever the extension is
ExportOutcome_AnyExtension(filename) == "ok"

\* export_audit_log: "ok" when the extension is .json or .csv, else ValueError
ExportOutcome(filename) ==
    IF filename.ext \in {"json", "csv"} THEN "ok" ELSE "ValueError"

\* the store after export_audit_log: open(filename, "w") replaces the file
\* it names
StoreAfterExport(st, filename, text) ==
    IF /\ ExportOutcome(filename) = "ok"
       /\ filename.dir = "audit_logs" /\ filename.ext = "jsonl"
       /\ filename.stem \in DOMAIN st
    THEN [ st EXCEPT ![filename.stem] = << text >> ]
    ELSE st

\* json.dump([e.to_dict() for e in self.events], f)
ExportText(evs) ==
    << Ch("[") >> \o Flatten([ i \in DOMAIN evs |-> to_json_line(evs[i]) ]) \o << Ch("]") >>

-----------------------------------------------------------------------------
(* ScanCache (backend/app/performance/optimization.py) *)

\* A repository name or commit hash given to the cache is a str: a sequence
\* of pieces, ":" or a run of other characters.
KeyCharCode(c) == CASE c = "a" -> 1 [] c = "b" -> 2 [] c = ":" -> 3 [] OTHER -> 4

RECURSIVE KeyCode(_)
KeyCode(t) == IF t = << >> THEN 0 ELSE KeyCharCode(Head(t)) + 5 * KeyCode(Tail(t))

\* hashlib.sha256(f"{repo_name}:{commit_hash}".encode()).hexdigest()
get_cache_key(repo_name, commit_hash) ==
    hexdigest(KeyCode(repo_name \o << ":" >> \o commit_hash))

\* ScanCache(ttl_minutes)
NewCache(ttl_minutes) == [ ttl |-> ttl_minutes, cache |-> << >> ]

\* datetime.utcnow() - timestamp < self.ttl
IsFresh(c, timestamp, utcnow) == (utcnow - timestamp) * MinutesPerHour < c.ttl

\* ScanCache.get: what it returns and the cache it leaves
cache_get(c, repo_name, commit_hash, utcnow) ==
    LET key == get_cache_key(repo_name, commit_hash) IN
        IF key \in DOMAIN c.cache
        THEN IF IsFresh(c, c.cache[key].timestamp, utcnow)
             THEN [ val |-> Some(c.cache[key].result), cache |-> c ]
             ELSE [ val |-> None,
                    cache |-> [ c EXCEPT !.cache =
                                  [ k \in (DOMAIN c.cache) \ {key} |-> c.cache[k] ] ] ]
        ELSE [ val |-> None, cache |-> c ]

\* ScanCache.set
cache_set(c, repo_name, commit_hash, result, utcnow) ==
    LET key == get_cache_key(repo_name, commit_hash) IN
        [ c EXCEPT !.cache =
            [ k \in (DOMAIN c.cache) \cup {key} |->
                IF k = key THEN [ result |-> result, timestamp |-> utcnow ]
                ELSE c.cache[k] ] ]

\* ScanCache.clear
cache_clear(c) == [ c EXCEPT !.cache = << >> ]

-----------------------------------------------------------------------------
(* Diff extraction and the rule engine (CodeAnalyzer, SecurityRuleEngine)  *)

\* A text (a diff, a line, a file path) is a str: a sequence of pieces.  A
\* piece is one character ("+", "-", " ", "#", "/", a newline) or a run of
\* other characters taken as a whole, such as a code fragment or ".py".
Whitespace == { " ", "\n", "\t", "\r" }

\* s.startswith(prefix)
startswith(s, prefix) ==
    Len(s) >= Len(prefix) /\ SubSeq(s, 1, Len(prefix)) = prefix

\* s.find(sep) from position i on, 0 if there is none
RECURSIVE IndexOf(_, _, _)
IndexOf(s, sep, i) ==
    IF i > Len(s) THEN 0
    ELSE IF s[i] = sep THEN i
    ELSE IndexOf(s, sep, i + 1)

\* s.split(sep)
RECURSIVE split(_, _)
split(s, sep) ==
    LET j == IndexOf(s, sep, 1) IN
        IF j = 0 THEN << s >>
        ELSE << SubSeq(s, 1, j - 1) >> \o split(SubSeq(s, j + 1, Len(s)), sep)

\* sep.join(parts)
RECURSIVE join(_, _)
join(parts, sep) ==
    IF parts = << >> THEN << >>
    ELSE IF Len(parts) = 1 THEN parts[1]
    ELSE parts[1] \o << sep >> \o join(Tail(parts), sep)

\* s.strip()
RECURSIVE lstrip(_)
lstrip(s) == IF s # << >> /\ Head(s) \in Whitespace THEN lstrip(Tail(s)) ELSE s

RECURSIVE rstrip(_)
rstrip(s) ==
    IF s # << >> /\ s[Len(s)] \in Whitespace THEN rstrip(SubSeq(s, 1, Len(s) - 1)) ELSE s

strip(s) == rstrip(lstrip(s))

\* IsAddedLine without the test for "+++"
IsAddedLine_KeepsHeader(line) == startswith(line, << "+" >>)

\* the test of parse_diff's loop
IsAddedLine(line) ==
    startswith(line, << "+" >>) /\ ~startswith(line, << "+", "+", "+" >>)

\* CodeAnalyzer.parse_diff
parse_diff(diff_content, file_path) ==
    LET lines == split(diff_content, "\n")
        added == SelectSeq(lines, IsAddedLine)
    IN  join([ i \in DOMAIN added |-> Tail(added[i]) ], "\n")

code_extensions ==
    { ".py", ".js", ".ts", ".tsx", ".jsx", ".java", ".cs", ".cpp", ".c", ".go",
      ".rb", ".php", ".sql", ".scala", ".kt" }

\* CodeAnalyzer._is_code_file: the path ends with one of the extensions
_is_code_file(file_path) ==
    file_path # << >> /\ file_path[Len(file_path)] \in code_extensions

\* The pattern tables of SecurityRuleEngine in the order scan_code applies
\* them; a pattern is named by its message.
RuleFamilies ==
    << [ rule_id |-> "SEC-001", severity |-> "critical",
        patterns |->
            << "Hardcoded API Key",
               "Hardcoded Password",
               "Hardcoded Secret",
               "Hardcoded Token",
               "AWS Access Key ID",
               "AWS Secret Key",
               "Hardcoded Private Key",
               "Hardcoded GitHub Token",
               "Hardcoded Docker Password",
               "Database credentials in connection string" >> ],
      [ rule_id |-> "SEC-002", severity |-> "critical",
        patterns |->
            << "SQL Injection: String interpolation in query",
               "SQL Injection: F-string in SQL query",
               "SQL Injection: String concatenation in query",
               "SQL Injection: format() in SQL query",
               "SQL Injection: Direct user input in execute" >> ],
      [ rule_id |-> "SEC-003", severity |-> "high",
        patterns |->
            << "Insecure Deserialization: pickle.loads() with untrusted data",
               "Insecure JSON deserialization of user input",
               "Insecure YAML deserialization: Missing Loader",
               "Insecure deserialization: cPickle.loads()",
               "Insecure deserialization: marshal.loads()" >> ],
      [ rule_id |-> "SEC-004", severity |-> "critical",
        patterns |->
            << "Unsafe Code Execution: eval()",
               "Unsafe Code Execution: exec()",
               "Unsafe Shell Execution",
               "Unsafe subprocess execution with shell",
               "Unsafe System Command Execution: os.system()",
               "Unsafe pipe execution: os.popen()" >> ],
      [ rule_id |-> "SEC-005", severity |-> "high",
        patterns |->
            << "Weak Cryptography: MD5 is insecure",
               "Weak Cryptography: SHA1 is deprecated",
               "Weak Cryptography: DES is insecure",
               "Weak Cryptography: RSA key size < 2048",
               "Weak Cryptography: ECB mode is insecure" >> ],
      [ rule_id |-> "SEC-006", severity |-> "medium",
        patterns |->
            << "Insecure Header: X-Frame-Options allows framing",
               "Missing HSTS header",
               "Missing X-Content-Type-Options header" >> ],
      [ rule_id |-> "SEC-007", severity |-> "high",
        patterns |->
            << "Unsafe file operation with user input",
               "Potential XXE vulnerability: Reading file without validation",
               "Unsafe ZIP file handling" >> ],
      [ rule_id |-> "SEC-008", severity |-> "high",
        patterns |->
            << "Weak randomness: random module is not cryptographically secure",
               "Weak randomness: random module should not be used for security",
               "Weak randomness: seeding with predictable value" >> ],
      [ rule_id |-> "COMP-001", severity |-> "medium",
        patterns |->
            << "Security TODO found - needs resolution",
               "Security FIXME found - needs resolution",
               "Security HACK found - needs immediate resolution",
               "Security BUG found - needs immediate resolution" >> ],
      [ rule_id |-> "SEC-009", severity |-> "medium",
        patterns |->
            << "Logging potential sensitive data: password",
               "Logging potential sensitive data: token",
               "Logging potential sensitive data: secret",
               "Logging potential sensitive data: key" >> ],
      [ rule_id |-> "SEC-010", severity |-> "high",
        patterns |->
            << "Insecure HTTPS: SSL verification disabled",
               "Deprecated urllib usage" >> ],
      [ rule_id |-> "PERF-001", severity |-> "low",
        patterns |->
            << "Performance: SELECT * should specify columns",
               "Performance: Query in loop detected",
               "Performance: Use .exists() instead of .count() == 0" >> ] >>

\* The patterns a code fragment matches (re.search with re.IGNORECASE).
MatchedBy(piece) ==
    CASE piece = "password = \"supersecret1\"" -> { "Hardcoded Password" }
      [] piece = "hashlib.md5(" -> { "Weak Cryptography: MD5 is insecure" }
      [] piece = "hashlib.sha1(" -> { "Weak Cryptography: SHA1 is deprecated" }
      [] piece = "TODO SECURITY" -> { "Security TODO found - needs resolution" }
      [] piece = "SELECT * FROM" -> { "Performance: SELECT * should specify columns" }
      [] OTHER -> {}

re_search(pattern, line) == \E i \in DOMAIN line : pattern \in MatchedBy(line[i])

\* the Violation scan_line constructs
Violation(rule_id, rule_name, severity, file_path, line_number) ==
    [ rule_id |-> rule_id, rule_name |-> rule_name, category |-> "security",
      severity |-> severity, file_path |-> file_path, line_number |-> line_number,
      is_copilot_generated |-> FALSE, suggested_fix |-> None ]

\* scan_line without the break: every pattern of the family that matches
\* gives a violation
RECURSIVE AllHits(_, _, _, _, _)
AllHits(line, file_path, line_number, family, k) ==
    IF k > Len(family.patterns) THEN << >>
    ELSE (IF re_search(family.patterns[k], line)
          THEN << Violation(family.rule_id, family.patterns[k], family.severity,
                            file_path, line_number) >>
          ELSE << >>) \o AllHits(line, file_path, line_number, family, k + 1)

scan_line_NoBreak(line, file_path, line_number, family) ==
    AllHits(line, file_path, line_number, family, 1)

\* SecurityRuleEngine.scan_line: the first pattern of the family that
\* matches gives one violation
scan_line(line, file_path, line_number, family) ==
    LET hits == { k \in DOMAIN family.patterns : re_search(family.patterns[k], line) }
    IN  IF hits = {} THEN << >>
        ELSE LET first == CHOOSE k \in hits : \A h \in hits : k <= h
             IN  << Violation(family.rule_id, family.patterns[first],
                              family.severity, file_path, line_number) >>

\* the families applied to one line, from family f on
RECURSIVE ScanFamilies(_, _, _, _)
ScanFamilies(line, file_path, line_number, f) ==
    IF f > Len(RuleFamilies) THEN << >>
    ELSE scan_line(line, file_path, line_number, RuleFamilies[f])
             \o ScanFamilies(line, file_path, line_number, f + 1)

\* IsSkippedLine without the test for "#"
IsSkippedLine_KeepsHashComments(line) ==
    \/ startswith(strip(line), << "/", "/" >>)
    \/ strip(line) = << >>

\* the test that makes scan_code skip a line
IsSkippedLine(line) ==
    \/ startswith(strip(line), << "#" >>)
    \/ startswith(strip(line), << "/", "/" >>)
    \/ strip(line) = << >>

RECURSIVE ScanLines(_, _, _)
ScanLines(lines, file_path, line_number) ==
    IF line_number > Len(lines) THEN << >>
    ELSE (IF IsSkippedLine(lines[line_number]) THEN << >>
          ELSE ScanFamilies(lines[line_number], file_path, line_number, 1))
             \o ScanLines(lines, file_path, line_number + 1)

\* SecurityRuleEngine.scan_code
scan_code(code, file_path) == ScanLines(split(code, "\n"), file_path, 1)

\* scan_code when the pattern table of family `broken` starts with a pattern
\* that re cannot compile: re.search raises re.error in scan_line on the
\* first line that is not skipped, and nothing in scan_line or scan_code
\* catches it, so the call ends with the exception and returns no list
scan_code_broken(code, file_path, broken) ==
    LET lines == split(code, "\n")
        scanned == { n \in DOMAIN lines : ~IsSkippedLine(lines[n]) }
    IN  IF scanned # {}
        THEN [ raised |-> TRUE, rule_id |-> Some(RuleFamilies[broken].rule_id),
               val |-> << >> ]
        ELSE [ raised |-> FALSE, rule_id |-> None, val |-> scan_code(code, file_path) ]

\* whether analyze_files hands a file to scan_code
IsScanned(file) ==
    /\ _is_code_file(file.path)
    /\ strip(parse_diff(file.diff, file.path)) # << >>

\* the violations analyze_files collects from one file
FileViolations(file, copilot_generated_files) ==
    IF ~IsScanned(file) THEN << >>
    ELSE LET vs == scan_code(parse_diff(file.diff, file.path), file.path) IN
         [ i \in DOMAIN vs |->
             IF file.path \in copilot_generated_files
             THEN [ vs[i] EXCEPT !.is_copilot_generated = TRUE ]
             ELSE vs[i] ]

\* CodeAnalyzer.analyze_files; request.files is a dict, taken in its order
RECURSIVE AnalyzeFileList(_, _)
AnalyzeFileList(files, copilot_generated_files) ==
    IF files = << >> THEN << >>
    ELSE FileViolations(Head(files), copilot_generated_files)
             \o AnalyzeFileList(Tail(files), copilot_generated_files)

analyze_files(request) ==
    AnalyzeFileList(request.files, request.copilot_generated_files)

\* the files analyze_files gave to SecurityRuleEngine.scan_code, in order
ScanCodeCalls(request) ==
    LET scanned == SelectSeq(request.files, IsScanned)
    IN  [ i \in DOMAIN scanned |-> scanned[i].path ]

-----------------------------------------------------------------------------
(* LicenseCompliance *)

\* the license types of license_patterns, in order
license_patterns == << "SPDX", "License Comment", "MIT", "Apache-2.0", "GPL-3.0" >>

\* match.group(1) if match.lastindex else license_type, for the pattern of
\* license_type on a code fragment; None if the pattern does not match
LicenseMatch(piece, license_type) ==
    IF piece = "SPDX-License-Identifier: AGPL-3.0"
    THEN (CASE license_type = "SPDX" -> Some("AGPL-3.0")
            [] license_type = "GPL-3.0" -> Some("GPL-3.0")
            [] OTHER -> None)
    ELSE None

\* the declarations detect_license_declarations finds in one line
RECURSIVE LineDeclarations(_, _)
LineDeclarations(line, k) ==
    IF k > Len(license_patterns) THEN << >>
    ELSE LET hits == { i \in DOMAIN line : LicenseMatch(line[i], license_patterns[k]) # None }
         IN  (IF hits = {} THEN << >>
              ELSE << [ type |-> license_patterns[k],
                        detected |-> LicenseMatch(line[CHOOSE i \in hits : \A h \in hits : i <= h],
                                                  license_patterns[k])[1] ] >>)
                 \o LineDeclarations(line, k + 1)

RECURSIVE LinesDeclarations(_, _)
LinesDeclarations(lines, n) ==
    IF n > Len(lines) THEN << >>
    ELSE LineDeclarations(lines[n], 1) \o LinesDeclarations(lines, n + 1)

\* LicenseCompliance.detect_license_declarations
detect_license_declarations(code, file_path) == LinesDeclarations(split(code, "\n"), 1)

\* the default of Policy's allowed_licenses, which every policy here has
DefaultAllowedLicenses == { "MIT", "Apache-2.0", "GPL-3.0", "BSD-3-Clause" }

\* LicenseCompliance.check_license_violations
check_license_violations(code, file_path, allowed_licenses) ==
    LET bad == SelectSeq(detect_license_declarations(code, file_path),
                         LAMBDA l : l.detected \notin allowed_licenses)
    IN  [ i \in DOMAIN bad |->
            [ rule_id |-> "LICENSE-001", rule_name |-> "Incompatible License Detected",
              category |-> "license", severity |-> "high", file_path |-> file_path,
              line_number |-> 1, is_copilot_generated |-> FALSE, suggested_fix |-> None ] ]

-----------------------------------------------------------------------------
(* Rulesets and compliance rule packs (RulePackManager,                     *)
(* ComplianceRulePackManager, api/extended_endpoints.py)                    *)

\* the keys of ComplianceRulePackManager.RULE_PACKS
RULE_PACKS == { "banking", "healthcare", "government", "telecom" }

\* str.lower on the industry names the model draws from
lower(name) ==
    CASE name = "Banking" -> "banking"
      [] name = "TELECOM" -> "telecom"
      [] OTHER -> name

\* ComplianceRulePackManager.get_rule_pack: the rules of the pack, named by
\* the pack's key, or the ValueError it raises
get_rule_pack(industry) ==
    IF lower(industry) \in RULE_PACKS
    THEN [ raised |-> None, val |-> Some(lower(industry)) ]
    ELSE [ raised |-> Some("ValueError"), val |-> None ]

\* RulePackManager()
NewRulePackManager == [ rulesets |-> << >>, active_ruleset |-> None ]

\* RulePackManager.register_ruleset
register_ruleset(m, ruleset) ==
    [ rulesets |-> [ n \in (DOMAIN m.rulesets) \cup { ruleset.name } |->
                       IF n = ruleset.name THEN ruleset ELSE m.rulesets[n] ],
      active_ruleset |-> IF m.active_ruleset = None THEN Some(ruleset.name)
                         ELSE m.active_ruleset ]

\* set_active_ruleset assigning before it looks the name up
set_active_ruleset_AssignsFirst(m, name) ==
    IF name \in DOMAIN m.rulesets
    THEN [ manager |-> [ m EXCEPT !.active_ruleset = Some(name) ], raised |-> None ]
    ELSE [ manager |-> [ m EXCEPT !.active_ruleset = Some(name) ],
           raised |-> Some("ValueError") ]

\* RulePackManager.set_active_ruleset: the manager after the call, and the
\* ValueError it raises
set_active_ruleset(m, name) ==
    IF name \in DOMAIN m.rulesets
    THEN [ manager |-> [ m EXCEPT !.active_ruleset = Some(name) ], raised |-> None ]
    ELSE [ manager |-> m, raised |-> Some("ValueError") ]

\* the names for which backend/guardrails-ruleset-<name>.yaml exists
RulesetFiles == { "default", "strict" }

\* GET /api/config/ruleset/{ruleset_name}: ConfigLoader.load raises
\* FileNotFoundError when the file is not there, which becomes a 404
get_ruleset(ruleset_name) ==
    IF ruleset_name \in RulesetFiles
    THEN [ status_code |-> None, ruleset |-> Some(ruleset_name) ]
    ELSE [ status_code |-> Some(NotFound), ruleset |-> None ]

\* GET /api/compliance/rules/{industry}: the ValueError becomes a 404
get_compliance_rules(industry) ==
    LET r == get_rule_pack(industry)
    IN  IF r.raised = Some("ValueError")
        THEN [ status_code |-> Some(NotFound), rules |-> None ]
        ELSE [ status_code |-> None, rules |-> r.val ]

-----------------------------------------------------------------------------
(* AIReviewer.suggest_fix *)

\* the rule ids of the table of _rule_based_suggest_fix
StaticFixKeys == { "SEC-001", "SEC-002", "SEC-003", "SEC-004", "SEC-005",
                   "AI-001", "IP-001" }

\* fixes.get(violation.rule_id, ("# Review code", violation.message))
_rule_based_suggest_fix(violation) ==
    IF violation.rule_id \in StaticFixKeys
    THEN [ kind |-> "static", rule_id |-> violation.rule_id ]
    ELSE [ kind |-> "review" ]

\* _ai_suggest_fix letting the exception of the Gemini call out
_ai_suggest_fix_Propagates(violation, reply) ==
    IF reply = "text" THEN [ ok |-> TRUE, fix |-> [ kind |-> "ai" ] ]
    ELSE [ ok |-> FALSE, fix |-> [ kind |-> "none" ] ]

\* _ai_suggest_fix: the parsed reply of the Gemini call, or the static
\* suggestion when the call raises
_ai_suggest_fix(violation, reply) ==
    IF reply = "text" THEN [ ok |-> TRUE, fix |-> [ kind |-> "ai" ] ]
    ELSE [ ok |-> TRUE, fix |-> _rule_based_suggest_fix(violation) ]

\* the reply the AI service gives to the i-th call of a request
ReplyAt(ai, i) == ai.replies[((i - 1) % Len(ai.replies)) + 1]

\* AIReviewer.suggest_fix, called for the i-th kept violation
suggest_fix(violation, ai, i) ==
    IF ai.use_ai THEN _ai_suggest_fix(violation, ReplyAt(ai, i))
    ELSE [ ok |-> TRUE, fix |-> _rule_based_suggest_fix(violation) ]

\* the loop of analyze_code over enforcement_result.violations
Enrich(violations, ai) ==
    [ i \in DOMAIN violations |->
        LET r == suggest_fix(violations[i], ai, i) IN
            IF r.ok THEN [ violations[i] EXCEPT !.suggested_fix = Some(r.fix) ]
            ELSE violations[i] ]

-----------------------------------------------------------------------------
(* Inputs the model draws from *)

ClockValues == { t \in 0..MaxNow : t % TickHours = 0 }

ReasonTexts == SeqsUpTo(ReasonChars, MaxReasonLen)

Summary(vs) ==
    [ i \in DOMAIN vs |->
        [ rule_id |-> vs[i].rule_id, severity |-> vs[i].severity,
          category |-> vs[i].category ] ]

Sec001 == [rule_id |-> "SEC-001", category |-> "security", severity |-> "critical"]
License001 == [rule_id |-> "LICENSE-001", category |-> "license", severity |-> "high"]
Perf001 == [rule_id |-> "PERF-001", category |-> "performance", severity |-> "low"]

\* every policy that can be registered under a name
PoliciesNamed(name) ==
    { Policy(name, m, boc, boh, sec, comp, qual) :
        m \in Modes, boc \in BOOLEAN, boh \in BOOLEAN,
        sec \in BOOLEAN, comp \in BOOLEAN, qual \in BOOLEAN }

\* policies registered in the enforcement specification: any policy for
\* the organisation acme
EnforcePolicies == PoliciesNamed(<<"acme">>)

\* policies registered in the resolution specification: two policies for
\* each of a repository, its organisation, a name without "/" and the name
\* of the default policy
ResolveNames == { <<"acme", "api">>, <<"acme">>, <<"solo">>, <<"default">> }

ResolvePolicies ==
    { Policy(n, m, FALSE, FALSE, TRUE, TRUE, FALSE) :
        n \in ResolveNames, m \in {"advisory", "blocking"} }

\* repository identifiers given to get_policy
ResolveRepos ==
    { <<"acme", "api">>, <<"acme", "web">>, <<"other", "x">>, <<"solo">>,
      <<"default", "x">> }

\* policies registered in the scan pipeline specification
PipelinePolicies ==
    { Policy(<<"acme">>, "blocking", FALSE, TRUE, TRUE, TRUE, FALSE) }

\* files of a request: a diff that adds a hardcoded password and a
\* SELECT *, a diff that adds a call of hashlib.md5 after a context line, a
\* diff whose added line is blank and whose removed line calls hashlib.md5,
\* and a file that is not code
FileSecret ==
    [ path |-> << "app", ".py" >>,
      diff |-> << "+", "+", "+", " ", "b/app.py", "\n",
                  "+", "password = \"supersecret1\"", "\n", "+", "SELECT * FROM" >> ]

FileMd5 ==
    [ path |-> << "lib", ".py" >>,
      diff |-> << " ", "x = 1", "\n", "+", "hashlib.md5(" >> ]

FileBlank ==
    [ path |-> << "old", ".py" >>,
      diff |-> << "+", " ", "\n", "-", "hashlib.md5(" >> ]

FileReadme ==
    [ path |-> << "README", ".md" >>,
      diff |-> << "+", "password = \"supersecret1\"" >> ]

\* a code file whose diff adds an SPDX tag of a license that is not allowed
FileAgpl ==
    [ path |-> << "vendor", ".py" >>,
      diff |-> << "+", "/", "/", " ", "SPDX-License-Identifier: AGPL-3.0", "\n",
                  "+", "x = 1" >> ]

\* request.files of the requests of the pipeline specification
PipelineFiles == { << FileSecret >>, << FileMd5 >> }

\* request.files of the requests of the scan specification
ScanFiles == { << FileSecret >>, << FileBlank, FileMd5 >>, << FileReadme, FileBlank >> }

\* override tokens a caller may present: none, the empty string, strings of
\* other lengths, a string of the digest's length that was never issued,
\* and the tokens that were issued
PresentedTokens ==
    { None, Some(<< >>),
      Some([ i \in 1..(DigestLen - 1) |-> 0 ]),
      Some([ i \in 1..DigestLen |-> NonHex ]) }
        \cup { Some(t.token) : t \in issued }

\* strings given to validate_override_token directly
ValidatedTokens ==
    { << >>, [ i \in 1..(DigestLen - 1) |-> 0 ], [ i \in 1..(DigestLen + 1) |-> 0 ],
      [ i \in 1..DigestLen |-> NonHex ] }
        \cup { t.token : t \in issued }

\* repositories of the pipeline: the one scanned and another one
PipelineRepos == { <<"acme", "api">>, <<"other", "x">> }

\* the JSON body of a request with all its keys; an optional key the caller
\* left out has the value data.get gives for it
RequestBody(files, tok, r, copilot) ==
    [ repo_name |-> <<"acme", "api">>, pr_number |-> 7, commit_hash |-> "c1",
      files |-> files, copilot_generated_files |-> copilot,
      override_token |-> tok, override_reason |-> r ]

\* the requests of the pipeline specification; an override_reason is given
\* with the tokens that were issued, and given or left out with the token
\* that was not
AnalysisRequests ==
    { RequestBody(files, tok, None, {}) :
        files \in PipelineFiles, tok \in PresentedTokens \ { Some(t.token) : t \in issued } }
      \cup { RequestBody(files, Some(t.token), Some(<< "}" >>), {}) :
                files \in PipelineFiles, t \in issued }
      \cup { RequestBody(files, Some([ i \in 1..DigestLen |-> NonHex ]), Some(<< "}" >>), {}) :
                files \in PipelineFiles }

\* a body without the key k
Without(data, k) == [ f \in (DOMAIN data) \ {k} |-> data[f] ]

\* requests of the scan specification: complete ones, and ones that lack
\* one of the keys
CompleteScanRequests ==
    { RequestBody(files, None, None, {}) : files \in ScanFiles }
      \cup { RequestBody(<< FileSecret >>, Some([ i \in 1..DigestLen |-> NonHex ]), None,
                          { << "app", ".py" >> }) }

IncompleteScanRequests ==
    { Without(RequestBody(<< FileSecret >>, Some([ i \in 1..DigestLen |-> NonHex ]), None, {}), k) :
        k \in { "repo_name", "pr_number", "commit_hash", "files" } }
      \cup { Without(Without(RequestBody(<< FileSecret >>, None, None, {}), "files"), "pr_number") }

ScanRequests == CompleteScanRequests \cup IncompleteScanRequests

\* requests given to analyze_files on its own
DiffRequests ==
    CompleteScanRequests
      \cup { RequestBody(<< FileAgpl >>, None, None, {}),
             RequestBody(<< FileMd5, FileSecret >>, None, None, { << "lib", ".py" >> }) }

\* diff texts given to parse_diff on its own
DiffPieces == { "+", "-", " ", "\n", "x = 1" }
Diffs == SeqsUpTo(DiffPieces, MaxDiffLen)

\* code texts given to scan_code on its own
CodePieces ==
    { "password = \"supersecret1\"", "hashlib.md5(", "hashlib.sha1(", "TODO SECURITY",
      "#", "/", " ", "\n" }
Codes == SeqsUpTo(CodePieces, MaxCodeLen)

\* the AI service: not configured (no GOOGLE_API_KEY), or configured with
\* each of its calls answering with a text or raising
AIOff == [ use_ai |-> FALSE, replies |-> << "error" >> ]

\* configured and answering every call
AIOn == [ use_ai |-> TRUE, replies |-> [ i \in 1..MaxAICalls |-> "text" ] ]

\* configured, with no call or one call of a request raising
AIBehaviours ==
    { AIOff } \cup { [ use_ai |-> TRUE,
                       replies |-> [ i \in 1..MaxAICalls |->
                                       IF i = k THEN "error" ELSE "text" ] ] :
                        k \in 0..MaxAICalls }

\* the requests of the scan specification with the behaviours of the AI
\* service they are made under
ScanInputs ==
    (CompleteScanRequests \X AIBehaviours) \cup (IncompleteScanRequests \X { AIOff, AIOn })

\* direct calls of log_scan
ScanCalls ==
    { [ repo_name |-> <<"acme", "api">>, pr_number |-> 7, commit_hash |-> "c1",
        violation_count |-> 1, critical_count |-> 1, high_count |-> 0,
        enforcement_action |-> "blocking", blocked |-> TRUE,
        scan_id |-> Some(0), violations_summary |-> Some(Summary(<< Sec001 >>)) ],
      [ repo_name |-> <<"other", "x">>, pr_number |-> 8, commit_hash |-> "c2",
        violation_count |-> 0, critical_count |-> 0, high_count |-> 0,
        enforcement_action |-> "warning", blocked |-> FALSE,
        scan_id |-> None, violations_summary |-> None ],
      [ repo_name |-> <<"acme", "api">>, pr_number |-> 9, commit_hash |-> "c3",
        violation_count |-> 2, critical_count |-> 0, high_count |-> 1,
        enforcement_action |-> "warning", blocked |-> FALSE,
        scan_id |-> Some(0),
        violations_summary |-> Some(Summary(<< License001, Perf001 >>)) ] }

ExportNames ==
    { FileName("", "audit_export", "json"), FileName("", "audit_export", "csv"),
      FileName("", "audit_export", "txt") }
        \cup { FileName("audit_logs", d, "jsonl") : d \in 0..DayOf(MaxNow) }

\* the threads of the process that call the AuditLogger
Threads == 1..MaxThreads

\* strings given to the ScanCache as repository name and as commit hash
CacheRepos == { << "a" >>, << "a", ":", "b" >> }
CacheCommits == { << "c" >>, << "b", ":", "c" >> }
CacheResults == { "r1", "r2" }
CacheTTLs == { DefaultTTLMinutes, 2 * DefaultTTLMinutes }

StoreCount(st) == Cardinality({ <<d, i>> \in (DOMAIN st) \X (1..MaxEvents + 1) : i \in DOMAIN st[d] })

-----------------------------------------------------------------------------
(* State after construction: PolicyEngine() and AuditLogger() on an empty  *)
(* log directory                                                           *)

Init ==
    /\ policies = << >>
    /\ events = << >>
    /\ store = << >>
    /\ now = 0
    /\ nextId = 1
    /\ issued = {}
    /\ accepted = << >>
    /\ cache = NewCache(DefaultTTLMinutes)
    /\ sets = << >>
    /\ inflight = [ t \in Threads |-> None ]
    /\ manager = NewRulePackManager
    /\ ret = [ op |-> "init" ]

Tick ==
    /\ now + TickHours <= MaxNow
    /\ now' = now + TickHours
    /\ UNCHANGED <<policies, events, store, nextId, issued, accepted, ret, cache, sets, inflight, manager>>

-----------------------------------------------------------------------------
(* PolicyEngine operations and the scan pipeline *)

RegisterPolicy(p) ==
    /\ policies' = register_policy(policies, p)
    /\ ret' = [ op |-> "register_policy", val |-> p ]
    /\ UNCHANGED <<events, store, now, nextId, issued, accepted, cache, sets, inflight, manager>>

GetPolicy(repo_name) ==
    /\ ret' = [ op |-> "get_policy", repo_name |-> repo_name,
                val |-> get_policy(policies, repo_name) ]
    /\ UNCHANGED <<policies, events, store, now, nextId, issued, accepted, cache, sets, inflight, manager>>

EnforcePolicy(violations, repo_name) ==
    /\ ret' = [ op |-> "enforce_policy", violations |-> violations,
                repo_name |-> repo_name,
                val |-> enforce_policy(policies, violations, repo_name) ]
    /\ UNCHANGED <<policies, events, store, now, nextId, issued, accepted, cache, sets, inflight, manager>>

\* POST /api/override
CreateOverrideToken(repo_name, reason) ==
    /\ Cardinality(issued) < MaxTokens
    /\ reason # << >>
    /\ LET token == create_override_token(repo_name, reason, now) IN
         /\ issued' = issued \cup { [ token |-> token, repo_name |-> repo_name,
                                      reason |-> reason, issued_at |-> now ] }
         /\ ret' = [ op |-> "create_override_token", val |-> token ]
    /\ UNCHANGED <<policies, events, store, now, nextId, accepted, cache, sets, inflight, manager>>

ValidateOverrideToken(token, repo_name) ==
    /\ ret' = [ op |-> "validate_override_token", token |-> token,
                repo_name |-> repo_name,
                val |-> validate_override_token(token, repo_name) ]
    /\ UNCHANGED <<policies, events, store, now, nextId, issued, accepted, cache, sets, inflight, manager>>

\* OverrideApplies without the test of enforcement_result.should_block
OverrideApplies_IgnoresDecision(req, should_block) ==
    /\ req.override_token # None
    /\ req.override_token[1] # << >>
    /\ validate_override_token(req.override_token[1], req.repo_name)

\* data.get("override_token") and enforcement_result.should_block and
\* policy_engine.validate_override_token(...)
OverrideApplies(req, should_block) ==
    /\ req.override_token # None
    /\ req.override_token[1] # << >>
    /\ should_block
    /\ validate_override_token(req.override_token[1], req.repo_name)

\* enforcement_result.should_block as log_scan and the response read it
ShouldBlockAfterOverride(decided, override_applied) ==
    IF override_applied THEN FALSE ELSE decided

\* required_fields without "commit_hash"
required_fields_WithoutCommit == << "repo_name", "pr_number", "files" >>

required_fields == << "repo_name", "pr_number", "commit_hash", "files" >>

\* the first required field that is not in data, None if all are
MissingField(data) ==
    LET missing == { i \in DOMAIN required_fields : required_fields[i] \notin DOMAIN data }
    IN  IF missing = {} THEN None
        ELSE Some(required_fields[CHOOSE i \in missing : \A m \in missing : i <= m])

\* the keys analyze_code reads as data[...]
SubscriptedFields == { "repo_name", "pr_number", "commit_hash", "files" }

\* what analyze_code does when it raises HTTPException before the scan
Rejected(status_code, detail) ==
    [ response |-> [ success |-> FALSE, status_code |-> status_code, detail |-> detail ],
      events |-> events, store |-> store, nextId |-> nextId, accepted |-> accepted,
      scan_calls |-> << >>, ai_calls |-> << >> ]

\* POST /api/analyze on the current state: the response, the ledger, the
\* next uuid and the accepted overrides it leaves, the files it gave to the
\* rule engine and the violations it asked the AI reviewer about
analyze_code(data, ai) ==
    IF MissingField(data) # None
    THEN Rejected(400, << "Missing required field", MissingField(data)[1] >>)
    ELSE IF ~(SubscriptedFields \subseteq DOMAIN data)
    THEN Rejected(500, << "Analysis failed", "KeyError" >>)
    ELSE
    LET violations == analyze_files(data)
        er == enforce_policy(policies, violations, data.repo_name)
        override_applied == OverrideApplies(data, er.should_block)
        reason == IF data.override_reason = None THEN NoReasonProvided
                  ELSE data.override_reason[1]
        l1 == IF override_applied
              THEN log_override(events, store, nextId, now, data.repo_name,
                                data.pr_number, reason)
              ELSE [ events |-> events, store |-> store ]
        id1 == IF override_applied THEN nextId + 1 ELSE nextId
        should_block == ShouldBlockAfterOverride(er.should_block, override_applied)
        enriched == Enrich(er.violations, ai)
        l2 == log_scan(l1.events, l1.store, id1 + 1, now,
                       [ repo_name |-> data.repo_name, pr_number |-> data.pr_number,
                         commit_hash |-> data.commit_hash,
                         violation_count |-> Len(enriched),
                         critical_count |-> CriticalCount(enriched),
                         high_count |-> HighCount(enriched),
                         enforcement_action |-> er.enforcement_mode,
                         blocked |-> should_block,
                         scan_id |-> Some(id1),
                         violations_summary |-> Some(Summary(enriched)) ])
    IN  [ response |-> [ success |-> TRUE, scan_id |-> id1,
                         repo_name |-> data.repo_name,
                         pr_number |-> data.pr_number,
                         violations |-> enriched,
                         violation_count |-> Len(enriched),
                         critical_count |-> CriticalCount(enriched),
                         high_count |-> HighCount(enriched),
                         copilot_violations |->
                             Cardinality({ i \in DOMAIN enriched :
                                             enriched[i].is_copilot_generated }),
                         enforcement_mode |-> er.enforcement_mode,
                         should_block |-> should_block,
                         block_reason |-> er.block_reason,
                         override_applied |-> override_applied ],
          events |-> l2.events, store |-> l2.store, nextId |-> id1 + 2,
          accepted |-> IF override_applied
                       THEN Append(accepted, [ token |-> data.override_token[1],
                                               at |-> now ])
                       ELSE accepted,
          scan_calls |-> ScanCodeCalls(data),
          ai_calls |-> er.violations ]

\* POST /api/analyze
AnalyzeCode(data, ai) ==
    LET r == analyze_code(data, ai) IN
        /\ \/ MissingField(data) # None
           \/ Cardinality({ i \in DOMAIN events : ~events[i].override_applied }) < MaxScans
        /\ events' = r.events
        /\ store' = r.store
        /\ nextId' = r.nextId
        /\ accepted' = r.accepted
        /\ ret' = [ op |-> "analyze_code", data |-> data, ai |-> ai,
                    val |-> r.response,
                    scan_calls |-> r.scan_calls, ai_calls |-> r.ai_calls ]
        /\ UNCHANGED <<policies, now, issued, cache, sets, inflight, manager>>

-----------------------------------------------------------------------------
(* AuditLogger operations *)

LogScan(a) ==
    /\ StoreCount(store) < MaxEvents
    /\ LET l == log_scan(events, store, nextId, now, a) IN
         /\ events' = l.events
         /\ store' = l.store
         /\ ret' = [ op |-> "log_scan", val |-> l.event ]
    /\ nextId' = nextId + 1
    /\ UNCHANGED <<policies, now, issued, accepted, cache, sets, inflight, manager>>

LogOverride(repo_name, pr_number, override_reason) ==
    /\ StoreCount(store) < MaxEvents
    /\ LET l == log_override(events, store, nextId, now, repo_name, pr_number,
                             override_reason) IN
         /\ events' = l.events
         /\ store' = l.store
         /\ ret' = [ op |-> "log_override", val |-> l.event ]
    /\ nextId' = nextId + 1
    /\ UNCHANGED <<policies, now, issued, accepted, cache, sets, inflight, manager>>

GetEventsByRepo(repo_name) ==
    /\ ret' = [ op |-> "get_events_by_repo", repo_name |-> repo_name,
                val |-> get_events_by_repo(events, repo_name) ]
    /\ UNCHANGED <<policies, events, store, now, nextId, issued, accepted, cache, sets, inflight, manager>>

GetEventsByDateRange(start_date, end_date) ==
    /\ ret' = [ op |-> "get_events_by_date_range",
                val |-> get_events_by_date_range(events, start_date, end_date) ]
    /\ UNCHANGED <<policies, events, store, now, nextId, issued, accepted, cache, sets, inflight, manager>>

GetViolationsSummary ==
    /\ ret' = [ op |-> "get_violations_summary",
                val |-> get_violations_summary(events) ]
    /\ UNCHANGED <<policies, events, store, now, nextId, issued, accepted, cache, sets, inflight, manager>>

ExportAuditLog(filename) ==
    /\ store' = StoreAfterExport(store, filename, ExportText(events))
    /\ ret' = [ op |-> "export_audit_log", filename |-> filename,
                val |-> ExportOutcome(filename) ]
    /\ UNCHANGED <<policies, events, now, nextId, issued, accepted, cache, sets, inflight, manager>>

\* The process ends and a new one constructs AuditLogger on the same
\* directory: self.events = [] and load_audit_logs(self.log_dir).
Restart(listing) ==
    /\ ret.op # "restart"
    /\ events' = load_audit_logs(<< >>, store, listing)
    /\ ret' = [ op |-> "restart", val |-> listing ]
    /\ UNCHANGED <<policies, store, now, nextId, issued, accepted, cache, sets, inflight, manager>>

\* load_audit_logs called on the logger's own directory while the process
\* runs: the loaded events are appended to self.events as it is
LoadAuditLogs(listing) ==
    /\ Len(events) <= MaxEvents
    /\ events' = load_audit_logs(events, store, listing)
    /\ ret' = [ op |-> "load_audit_logs", val |-> listing ]
    /\ UNCHANGED <<policies, store, now, nextId, issued, accepted, cache, sets, inflight, manager>>

\* records of the store that do not end with the newline f.write puts last
CutShort(st) ==
    { <<d, i>> \in (DOMAIN st) \X (1..MaxEvents + 1) :
        i \in DOMAIN st[d] /\ st[d][i][Len(st[d][i])].c # "\n" }

\* The process dies inside f.write of log_override: only the first k
\* characters of the record reach the file; a new process then constructs
\* AuditLogger on the directory.
KilledDuringWrite(repo_name, pr_number, override_reason, k, listing) ==
    LET e == log_override(events, store, nextId, now, repo_name, pr_number,
                          override_reason).event
        text == to_json_line(e)
    IN  /\ StoreCount(store) < MaxEvents
        /\ Cardinality(CutShort(store)) < MaxKills
        /\ k \in 1..(Len(text) - 1)
        /\ store' = AppendToFile(store, DayOf(now), SubSeq(text, 1, k))
        /\ listing \in Listings(store')
        /\ events' = load_audit_logs(<< >>, store', listing)
        /\ nextId' = nextId + 1
        /\ ret' = [ op |-> "restart", val |-> listing ]
        /\ UNCHANGED <<policies, now, issued, accepted, cache, sets, inflight, manager>>

-----------------------------------------------------------------------------
(* AuditLogger called from several threads: a log call is two steps,       *)
(* self.events.append(event) and then self._write_event(event)             *)

NoneInFlight == \A t \in Threads : inflight[t] = None

\* thread t runs log_scan up to and including self.events.append(event)
LogScanAppend(t, a) ==
    /\ inflight[t] = None
    /\ Len(events) < MaxEvents
    /\ LET e == log_scan(events, store, nextId, now, a).event IN
         /\ events' = Append(events, e)
         /\ inflight' = [ inflight EXCEPT ![t] = Some(e) ]
    /\ nextId' = nextId + 1
    /\ UNCHANGED <<policies, store, now, issued, accepted, cache, sets, ret, manager>>

\* thread t runs log_override up to and including self.events.append(event)
LogOverrideAppend(t, repo_name, pr_number, override_reason) ==
    /\ inflight[t] = None
    /\ Len(events) < MaxEvents
    /\ LET e == log_override(events, store, nextId, now, repo_name, pr_number,
                             override_reason).event IN
         /\ events' = Append(events, e)
         /\ inflight' = [ inflight EXCEPT ![t] = Some(e) ]
    /\ nextId' = nextId + 1
    /\ UNCHANGED <<policies, store, now, issued, accepted, cache, sets, ret, manager>>

\* thread t runs self._write_event(event) and returns the event
LogWrite(t) ==
    /\ inflight[t] # None
    /\ store' = _write_event(store, inflight[t][1], now)
    /\ inflight' = [ inflight EXCEPT ![t] = None ]
    /\ ret' = [ op |-> IF inflight[t][1].override_applied THEN "log_override"
                       ELSE "log_scan",
                val |-> inflight[t][1] ]
    /\ UNCHANGED <<policies, events, now, nextId, issued, accepted, cache, sets, manager>>

-----------------------------------------------------------------------------
(* ScanCache operations *)

\* ScanCache(ttl_minutes=...)
NewScanCache(ttl_minutes) ==
    /\ cache' = NewCache(ttl_minutes)
    /\ sets' = << >>
    /\ ret' = [ op |-> "new_cache", val |-> ttl_minutes ]
    /\ UNCHANGED <<policies, events, store, now, nextId, issued, accepted, inflight, manager>>

CacheGet(repo_name, commit_hash) ==
    /\ LET r == cache_get(cache, repo_name, commit_hash, now) IN
         /\ cache' = r.cache
         /\ ret' = [ op |-> "cache_get", repo_name |-> repo_name,
                     commit_hash |-> commit_hash, val |-> r.val ]
    /\ UNCHANGED <<policies, events, store, now, nextId, issued, accepted, sets, inflight, manager>>

CacheSet(repo_name, commit_hash, result) ==
    /\ cache' = cache_set(cache, repo_name, commit_hash, result, now)
    /\ sets' = [ p \in (DOMAIN sets) \cup { <<repo_name, commit_hash>> } |->
                   IF p = <<repo_name, commit_hash>>
                   THEN [ result |-> result, timestamp |-> now ]
                   ELSE sets[p] ]
    /\ ret' = [ op |-> "cache_set", repo_name |-> repo_name,
                commit_hash |-> commit_hash, val |-> result ]
    /\ UNCHANGED <<policies, events, store, now, nextId, issued, accepted, inflight, manager>>

CacheClear ==
    /\ cache' = cache_clear(cache)
    /\ sets' = << >>
    /\ ret' = [ op |-> "cache_clear" ]
    /\ UNCHANGED <<policies, events, store, now, nextId, issued, accepted, inflight, manager>>

\* an hour passes
HourTick ==
    /\ now < MaxCacheHours
    /\ now' = now + 1
    /\ UNCHANGED <<policies, events, store, nextId, issued, accepted, cache, sets, inflight, ret, manager>>

-----------------------------------------------------------------------------
(* CodeAnalyzer called on its own: the input is chosen first, then the     *)
(* function is applied to it                                               *)

InitDiff ==
    /\ policies = << >>
    /\ events = << >>
    /\ store = << >>
    /\ now = 0
    /\ nextId = 1
    /\ issued = {}
    /\ accepted = << >>
    /\ cache = NewCache(DefaultTTLMinutes)
    /\ sets = << >>
    /\ inflight = [ t \in Threads |-> None ]
    /\ manager = NewRulePackManager
    /\ \/ \E d \in Diffs : ret = [ op |-> "diff", diff_content |-> d ]
       \/ \E r \in DiffRequests : ret = [ op |-> "request", request |-> r ]
       \/ \E c \in Codes : ret = [ op |-> "code", code |-> c ]
       \/ \E c \in SeqsUpTo(CodePieces, MaxBrokenCodeLen), f \in DOMAIN RuleFamilies :
              ret = [ op |-> "broken", code |-> c, broken |-> f ]

ParseDiff ==
    /\ ret.op = "diff"
    /\ ret' = [ op |-> "parse_diff", diff_content |-> ret.diff_content,
                val |-> parse_diff(ret.diff_content, << "a", ".py" >>) ]
    /\ UNCHANGED <<policies, events, store, now, nextId, issued, accepted, cache, sets, inflight, manager>>

AnalyzeFiles ==
    /\ ret.op = "request"
    /\ ret' = [ op |-> "analyze_files", request |-> ret.request,
                val |-> analyze_files(ret.request),
                scan_calls |-> ScanCodeCalls(ret.request) ]
    /\ UNCHANGED <<policies, events, store, now, nextId, issued, accepted, cache, sets, inflight, manager>>

ScanCode ==
    /\ ret.op = "code"
    /\ ret' = [ op |-> "scan_code", code |-> ret.code,
                val |-> scan_code(ret.code, << "a", ".py" >>) ]
    /\ UNCHANGED <<policies, events, store, now, nextId, issued, accepted, cache, sets, inflight, manager>>

\* the rulesets, ruleset names and industry names the model draws from
RuleSets == { [ name |-> n, version |-> v ] : n \in { "default", "pci" }, v \in { "1.0.0", "2.0.0" } }
RulesetNames == { "default", "pci", "strict", "nope" }
IndustryNames == { "banking", "Banking", "TELECOM", "retail", "" }

RegisterRuleset(ruleset) ==
    /\ manager' = register_ruleset(manager, ruleset)
    /\ ret' = [ op |-> "register_ruleset", name |-> ruleset.name ]
    /\ UNCHANGED <<policies, events, store, now, nextId, issued, accepted, cache, sets, inflight>>

SetActiveRuleset(name) ==
    LET r == set_active_ruleset(manager, name) IN
      /\ manager' = r.manager
      /\ ret' = [ op |-> "set_active_ruleset", name |-> name, raised |-> r.raised ]
      /\ UNCHANGED <<policies, events, store, now, nextId, issued, accepted, cache, sets, inflight>>

GetRulePack(industry) ==
    /\ ret' = [ op |-> "get_rule_pack", name |-> industry,
                raised |-> get_rule_pack(industry).raised,
                val |-> get_rule_pack(industry).val ]
    /\ UNCHANGED <<policies, events, store, now, nextId, issued, accepted, cache, sets, inflight, manager>>

GetRuleset(ruleset_name) ==
    /\ ret' = [ op |-> "get_ruleset", name |-> ruleset_name,
                val |-> get_ruleset(ruleset_name) ]
    /\ UNCHANGED <<policies, events, store, now, nextId, issued, accepted, cache, sets, inflight, manager>>

GetComplianceRules(industry) ==
    /\ ret' = [ op |-> "get_compliance_rules", name |-> industry,
                val |-> get_compliance_rules(industry) ]
    /\ UNCHANGED <<policies, events, store, now, nextId, issued, accepted, cache, sets, inflight, manager>>

\* scan_code on its own, with one pattern table broken
ScanCodeBroken ==
    /\ ret.op = "broken"
    /\ ret' = [ op |-> "scan_code_broken", code |-> ret.code, broken |-> ret.broken,
                val |-> scan_code_broken(ret.code, << "a", ".py" >>, ret.broken) ]
    /\ UNCHANGED <<policies, events, store, now, nextId, issued, accepted, cache, sets, inflight, manager>>

-----------------------------------------------------------------------------
(* Specifications *)

\* the policy registry and enforce_policy
NextEnforce ==
    \/ \E p \in EnforcePolicies : RegisterPolicy(p)
    \/ \E vs \in ViolationLists : EnforcePolicy(vs, <<"acme", "api">>)

SpecEnforce == Init /\ [][NextEnforce]_vars

\* the policy registry and get_policy
NextResolve ==
    \/ \E p \in ResolvePolicies : RegisterPolicy(p)
    \/ \E r \in ResolveRepos : GetPolicy(r)

SpecResolve == Init /\ [][NextResolve]_vars

\* the scan pipeline with override tokens
Next ==
    \/ \E p \in PipelinePolicies : RegisterPolicy(p)
    \/ CreateOverrideToken(<<"acme", "api">>, << "a" >>)
    \/ \E req \in AnalysisRequests : AnalyzeCode(req, AIOff)
    \/ Tick

Spec == Init /\ [][Next]_vars

\* the scan pipeline from the request body on, with the AI reviewer
NextScan ==
    \/ \E p \in PipelinePolicies : RegisterPolicy(p)
    \/ \E x \in ScanInputs : AnalyzeCode(x[1], x[2])

SpecScan == Init /\ [][NextScan]_vars

\* parse_diff, analyze_files and scan_code applied to a chosen input
NextDiff ==
    \/ ParseDiff
    \/ AnalyzeFiles
    \/ ScanCode
    \/ ScanCodeBroken

SpecDiff == InitDiff /\ [][NextDiff]_vars

\* rulesets and compliance rule packs
NextPacks ==
    \/ \E rs \in RuleSets : RegisterRuleset(rs)
    \/ \E n \in RulesetNames : SetActiveRuleset(n)
    \/ \E n \in RulesetNames : GetRuleset(n)
    \/ \E i \in IndustryNames : GetRulePack(i)
    \/ \E i \in IndustryNames : GetComplianceRules(i)

SpecPacks == Init /\ [][NextPacks]_vars

\* issuing and validating override tokens
NextToken ==
    \/ \E r \in Repos : CreateOverrideToken(r, << "a" >>)
    \/ \E tok \in ValidatedTokens, r \in Repos : ValidateOverrideToken(tok, r)
    \/ Tick

SpecToken == Init /\ [][NextToken]_vars

\* one AuditLogger from its construction on
NextSession ==
    \/ \E a \in ScanCalls : LogScan(a)
    \/ \E t \in ReasonTexts : LogOverride(<<"acme", "api">>, 7, t)
    \/ \E r \in PipelineRepos : GetEventsByRepo(r)
    \/ \E s \in ClockValues, e \in ClockValues : GetEventsByDateRange(s, e)
    \/ GetViolationsSummary
    \/ \E f \in ExportNames : ExportAuditLog(f)
    \/ Tick

SpecSession == Init /\ [][NextSession]_vars

\* the audit log across restarts of the process
NextReplay ==
    \/ \E a \in ScanCalls : LogScan(a)
    \/ \E t \in ReasonTexts : LogOverride(<<"acme", "api">>, 7, t)
    \/ \E l \in Listings(store) : Restart(l)
    \/ \E t \in ReasonTexts, k \in 1..MaxCut, l \in Listings(AppendToFile(store, DayOf(now), << >>)) :
           KilledDuringWrite(<<"acme", "api">>, 7, t, k, l)
    \/ Tick

SpecReplay == Init /\ [][NextReplay]_vars

\* one AuditLogger whose directory is loaded again while it runs
NextReload ==
    \/ \E a \in ScanCalls : LogScan(a)
    \/ \E t \in ReasonTexts : LogOverride(<<"acme", "api">>, 7, t)
    \/ \E l \in Listings(store) : LoadAuditLogs(l)
    \/ Tick

SpecReload == Init /\ [][NextReload]_vars

\* the AuditLogger called from several threads
NextThreads ==
    \/ \E t \in Threads, a \in ScanCalls : LogScanAppend(t, a)
    \/ \E t \in Threads, r \in ReasonTexts : LogOverrideAppend(t, <<"acme", "api">>, 7, r)
    \/ \E t \in Threads : LogWrite(t)
    \/ Tick

SpecThreads == Init /\ [][NextThreads]_vars

\* one ScanCache
NextCache ==
    \/ \E m \in CacheTTLs : NewScanCache(m)
    \/ \E r \in CacheRepos, c \in CacheCommits : CacheGet(r, c)
    \/ \E r \in CacheRepos, c \in CacheCommits, v \in CacheResults : CacheSet(r, c, v)
    \/ CacheClear
    \/ HourTick

SpecCache == Init /\ [][NextCache]_vars

-----------------------------------------------------------------------------
(* Properties of enforce_policy (SpecEnforce) *)

ResolvedPolicy == get_policy(policies, ret.repo_name)

\* C1: enforce_policy returns should_block = TRUE exactly when, over the
\* kept violations, block_on_critical holds with a critical violation, or
\* block_on_high holds with a high violation, or the mode is blocking with
\* a license violation; so with both flags off and no license violation
\* nothing blocks, and with block_on_critical on a critical violation blocks.
C1_BlockIffCondition ==
    ret.op = "enforce_policy" =>
        LET pol == ResolvedPolicy
            kept == ret.val.violations
            anyCritical == \E i \in DOMAIN kept : kept[i].severity = "critical"
            anyHigh == \E i \in DOMAIN kept : kept[i].severity = "high"
            anyLicense == \E i \in DOMAIN kept : kept[i].category = "license"
        IN  /\ ret.val.should_block <=>
                  \/ pol.block_on_critical /\ anyCritical
                  \/ pol.block_on_high /\ anyHigh
                  \/ pol.enforcement_mode = "blocking" /\ anyLicense
            /\ (~pol.block_on_critical /\ ~pol.block_on_high /\ ~anyLicense)
                  => ~ret.val.should_block
            /\ (pol.block_on_critical /\ anyCritical) => ret.val.should_block

\* a kept high violation under a registered policy that does not block on
\* high, in a mode other than blocking: the decision is not to block
C1_Witness ==
    /\ ret.op = "enforce_policy"
    /\ policies # << >>
    /\ ~ResolvedPolicy.block_on_high /\ ~ResolvedPolicy.block_on_critical
    /\ \E i \in DOMAIN ret.val.violations :
           /\ ret.val.violations[i].severity = "high"
           /\ ret.val.violations[i].category = "security"
    /\ \E i \in DOMAIN ret.val.violations : ret.val.violations[i].severity = "critical"
    /\ ~ret.val.should_block

\* C2: under a policy in advisory or warning mode enforce_policy never
\* returns should_block = TRUE.
C2_OnlyBlockingModeBlocks ==
    ret.op = "enforce_policy" =>
        (ret.val.enforcement_mode \in {"advisory", "warning"} => ~ret.val.should_block)

-----------------------------------------------------------------------------
(* Properties of the scan pipeline (Spec) *)

IsOverrideEvent(e, req, reason) ==
    /\ e.override_applied /\ e.enforcement_action = "override" /\ ~e.blocked
    /\ e.repo_name = req.repo_name /\ e.pr_number = req.pr_number
    /\ e.override_reason = Some(reason)

IsScanEvent(e, req) ==
    /\ ~e.override_applied /\ e.enforcement_action # "override"
    /\ e.repo_name = req.repo_name /\ e.commit_hash = req.commit_hash

\* C3: a request served by analyze_code has override_applied = TRUE, with
\* one override event written before its one scan event and should_block =
\* FALSE in the response, exactly when the decision was to block and the
\* request carried a token of the digest's length; otherwise the decision
\* is returned as decided and the scan event is the only event written.
C3_OverrideIffBlockedAndValid ==
    [][ (ret'.op = "analyze_code" /\ nextId' # nextId) =>
            LET req == ret'.data
                decided == enforce_policy(policies, analyze_files(req), req.repo_name).should_block
                valid == /\ decided
                         /\ req.override_token # None
                         /\ Len(req.override_token[1]) = DigestLen
                n == Len(events)
                reason == IF req.override_reason = None THEN NoReasonProvided
                          ELSE req.override_reason[1]
            IN  /\ ret'.val.override_applied <=> valid
                /\ valid =>
                     /\ ret'.val.should_block = FALSE
                     /\ Len(events') = n + 2
                     /\ SubSeq(events', 1, n) = events
                     /\ IsOverrideEvent(events'[n + 1], req, reason)
                     /\ IsScanEvent(events'[n + 2], req)
                /\ ~valid =>
                     /\ ret'.val.should_block = decided
                     /\ Len(events') = n + 1
                     /\ SubSeq(events', 1, n) = events
                     /\ IsScanEvent(events'[n + 1], req) ]_vars

\* an accepted override: the override event and then the scan event are the
\* last two events of the ledger
C3_Witness ==
    /\ ret.op = "analyze_code"
    /\ ret.val.override_applied /\ ~ret.val.should_block
    /\ Len(events) >= 2
    /\ events[Len(events) - 1].override_applied
    /\ events[Len(events) - 1].override_reason = Some(<< "}" >>)
    /\ ~events[Len(events)].override_applied

\* C4: after an accepted override the scan event of the request still has
\* blocked = TRUE, the decision taken before the flip, and the counts of
\* the kept violations.
C4_ScanEventKeepsDecision ==
    (ret.op = "analyze_code" /\ ret.val.override_applied) =>
        LET e == events[Len(events)] IN
            /\ e.blocked = TRUE
            /\ e.violation_count = ret.val.violation_count
            /\ e.critical_count = ret.val.critical_count
            /\ e.high_count = ret.val.high_count

\* C5: an issued token is not accepted when presented more than 24 hours
\* after it was issued, and it is not accepted for two scans.
C5_TokenExpiresAndIsSingleUse ==
    \A t \in issued :
        LET uses == { i \in DOMAIN accepted : accepted[i].token = t.token }
        IN  /\ \A i \in uses : accepted[i].at <= t.issued_at + TokenTTLHours
            /\ Cardinality(uses) <= 1

\* C6: validate_override_token(token, repo) is TRUE exactly for a token of
\* the digest's length, whatever the repository, whether or not the token
\* was issued and however long ago; every issued token is DigestLen hex
\* digits long and validates for every repository.
C6_ValidationIsStructural ==
    /\ ret.op = "validate_override_token" =>
           (ret.val <=> Len(ret.token) = DigestLen)
    /\ \A tok \in ValidatedTokens : \A r1, r2 \in Repos :
           validate_override_token(tok, r1) = validate_override_token(tok, r2)
    /\ \A t \in issued :
           /\ Len(t.token) = DigestLen
           /\ \A i \in DOMAIN t.token : t.token[i] \in HexDigits
           /\ \A r \in Repos : validate_override_token(t.token, r)

\* an issued token validated for another repository than the one it was
\* issued for, after its 24 hours
C6_Witness ==
    /\ ret.op = "validate_override_token"
    /\ ret.val
    /\ \E t \in issued :
           /\ t.token = ret.token
           /\ t.repo_name # ret.repo_name
           /\ now > t.issued_at + TokenTTLHours

-----------------------------------------------------------------------------
(* Properties of the audit ledger (SpecSession, SpecReplay) *)

IsPrefix(a, b) == Len(a) <= Len(b) /\ SubSeq(b, 1, Len(a)) = a

RECURSIVE DaysInOrder(_)
DaysInOrder(days) ==
    IF days = {} THEN << >>
    ELSE LET first == CHOOSE d \in days : \A x \in days : d <= x
         IN  << first >> \o DaysInOrder(days \ {first})

\* the records of the store, oldest daily file first
WrittenRecords(st) ==
    LET days == DaysInOrder(DOMAIN st)
    IN  Flatten([ i \in DOMAIN days |-> st[days[i]] ])

\* the event a record holds: the JSON object before its newline; nothing
\* for a record that was cut short
RecordEvent(rec) ==
    IF rec[Len(rec)].c = "\n" THEN LoadObject(SubSeq(rec, 1, Len(rec) - 1)) ELSE None

\* the events of the store, in the order they were written
StoreEvents(st) ==
    LET recs == WrittenRecords(st)
    IN  Flatten([ i \in DOMAIN recs |-> RecordEvent(recs[i]) ])

BraceFree(e) ==
    \/ e.override_reason = None
    \/ \A i \in DOMAIN e.override_reason[1] : e.override_reason[1][i] \notin {"{", "}"}

\* C7: after events were written, none of them cut short, a new AuditLogger
\* on the directory holds exactly the events of the store, with the same
\* field values and in the order they were written.
C7_LedgerRoundTrip ==
    (ret.op = "restart" /\ CutShort(store) = {}) => events = StoreEvents(store)

\* C8: each log_scan and log_override call appends one event to the
\* in-memory list and to the store and returns it, and the list and the
\* store hold the same events in the same order.
C8_LogAppendsToBoth ==
    /\ [](events = StoreEvents(store))
    /\ [][ nextId' # nextId =>
             /\ ret'.op \in {"log_scan", "log_override"}
             /\ events' = Append(events, ret'.val)
             /\ StoreEvents(store') = Append(StoreEvents(store), ret'.val) ]_vars

\* scan and override events written to two daily files, one of them with a
\* brace in its free text
C8_Witness ==
    /\ ret.op = "log_override"
    /\ ~BraceFree(ret.val)
    /\ Cardinality(DOMAIN store) >= 2
    /\ \E i \in DOMAIN events : ~events[i].override_applied
                                 /\ events[i].violations_summary # None

\* C9: the in-memory list only grows at its end and the files of the store
\* only grow at their end; the queries, the summary and the export leave
\* both unchanged.
C9_WriteOnce ==
    [][ /\ IsPrefix(events, events')
        /\ \A d \in DOMAIN store :
               d \in DOMAIN store' /\ IsPrefix(store[d], store'[d])
        /\ nextId' = nextId => (events' = events /\ store' = store) ]_vars

\* an export asked to write over a daily file of the store that holds events
C9_Witness ==
    /\ ret.op = "export_audit_log"
    /\ ret.filename.dir = "audit_logs"
    /\ ret.filename.stem \in DOMAIN store
    /\ Len(events) >= 2

\* C10: when a record of the store was cut short, the replay still loads
\* every complete record, before or after it.  (Stated for stores whose
\* complete records hold no brace in their free text.)
C10_ReplayLoadsEveryCompleteRecord ==
    (/\ ret.op = "restart"
     /\ CutShort(store) # {}
     /\ \A i \in DOMAIN StoreEvents(store) : BraceFree(StoreEvents(store)[i]))
        => \A i \in DOMAIN StoreEvents(store) :
               \E j \in DOMAIN events : events[j] = StoreEvents(store)[i]

-----------------------------------------------------------------------------
(* Properties of the filter of enforce_policy (SpecEnforce) *)

\* the elements of s at the positions where keep is TRUE, in order
RECURSIVE Pick(_, _, _)
Pick(s, keep, i) ==
    IF i > Len(s) THEN << >>
    ELSE (IF keep[i] THEN << s[i] >> ELSE << >>) \o Pick(s, keep, i + 1)

\* C12: violations and filtered_violations partition the raw list given to
\* enforce_policy: each raw violation is in exactly one of the two, none is
\* duplicated or dropped, the order within each is the raw order, and the
\* two lengths add up to the raw count.
C12_PartitionLaw ==
    ret.op = "enforce_policy" =>
        LET raw == ret.violations
            kept == ret.val.violations
            dropped == ret.val.filtered_violations
        IN  /\ Len(kept) + Len(dropped) = Len(raw)
            /\ \E keep \in [DOMAIN raw -> BOOLEAN] :
                   /\ kept = Pick(raw, keep, 1)
                   /\ dropped = Pick(raw, [ i \in DOMAIN raw |-> ~keep[i] ], 1)

\* a raw list of a filtered violation followed by a kept one
C12_Witness ==
    /\ ret.op = "enforce_policy"
    /\ Len(ret.violations) = 2
    /\ ret.val.filtered_violations = << ret.violations[1] >>
    /\ ret.val.violations = << ret.violations[2] >>
    /\ ret.violations[1] # ret.violations[2]

FlagOf(policy, category) ==
    CASE category = "security" -> policy.enable_security_checks
      [] category = "compliance" -> policy.enable_compliance_checks
      [] category = "code_quality" -> policy.enable_quality_checks
      [] OTHER -> TRUE

\* C13: a violation is in filtered_violations exactly when its category is
\* security, compliance or code_quality and the policy's flag for that
\* category is off; license and performance violations are always kept; the
\* count in block_reason is a count over the kept violations, and nothing
\* blocks unless a kept violation is critical, high or a license violation.
C13_FilterByDisabledCategory ==
    ret.op = "enforce_policy" =>
        LET pol == ResolvedPolicy
            kept == ret.val.violations
            dropped == ret.val.filtered_violations
            n(cond) == Cardinality({ i \in DOMAIN kept :
                           CASE cond = "critical" -> kept[i].severity = "critical"
                             [] cond = "high" -> kept[i].severity = "high"
                             [] OTHER -> kept[i].category = "license" })
        IN  /\ \A i \in DOMAIN dropped :
                   /\ dropped[i].category \in {"security", "compliance", "code_quality"}
                   /\ ~FlagOf(pol, dropped[i].category)
            /\ \A i \in DOMAIN kept : FlagOf(pol, kept[i].category)
            /\ \A i \in DOMAIN ret.violations :
                   ret.violations[i].category \in {"license", "performance"}
                       => \E j \in DOMAIN kept : kept[j] = ret.violations[i]
            /\ ret.val.block_reason # None =>
                   /\ ret.val.block_reason[1].count = n(ret.val.block_reason[1].cond)
                   /\ ret.val.block_reason[1].count > 0
            /\ ret.val.should_block =>
                   \E i \in DOMAIN kept : \/ kept[i].severity \in {"critical", "high"}
                                          \/ kept[i].category = "license"

\* security checks are off under a policy that blocks on critical and on
\* high, in a mode other than blocking: a critical security violation is
\* filtered and the decision names the one kept high violation
C13_Witness ==
    /\ ret.op = "enforce_policy"
    /\ ~ResolvedPolicy.enable_security_checks
    /\ ResolvedPolicy.block_on_critical
    /\ ResolvedPolicy.enforcement_mode # "blocking"
    /\ \E i \in DOMAIN ret.val.filtered_violations :
           ret.val.filtered_violations[i].severity = "critical"
    /\ \E i \in DOMAIN ret.val.violations :
           ret.val.violations[i].category = "license"
    /\ ret.val.block_reason = Some([cond |-> "high", count |-> 1])

\* C14: in blocking mode with a kept license violation enforce_policy
\* returns should_block = TRUE whatever block_on_critical, block_on_high and
\* the severity counts are, and block_reason names the number of kept
\* license violations, also when a severity condition triggered.
C14_LicenseForcesBlock ==
    ret.op = "enforce_policy" =>
        LET kept == ret.val.violations
            licenses == { i \in DOMAIN kept : kept[i].category = "license" }
        IN  (ResolvedPolicy.enforcement_mode = "blocking" /\ licenses # {}) =>
                /\ ret.val.should_block
                /\ ret.val.block_reason =
                       Some([cond |-> "license", count |-> Cardinality(licenses)])

\* blocking mode with both flags off: one kept license violation blocks
\* with the license reason and count 1
C14_Witness ==
    /\ ret.op = "enforce_policy"
    /\ ResolvedPolicy.enforcement_mode = "blocking"
    /\ ~ResolvedPolicy.block_on_critical /\ ~ResolvedPolicy.block_on_high
    /\ \E i \in DOMAIN ret.val.violations : ret.val.violations[i].severity = "critical"
    /\ ret.val.should_block
    /\ ret.val.block_reason = Some([cond |-> "license", count |-> 1])

\* the conditions of enforce_policy's decision over the kept violations
CriticalTriggers ==
    /\ ResolvedPolicy.block_on_critical
    /\ CriticalCount(ret.val.violations) > 0

HighTriggers ==
    /\ ResolvedPolicy.block_on_high
    /\ HighCount(ret.val.violations) > 0

LicenseTriggers ==
    /\ ResolvedPolicy.enforcement_mode = "blocking"
    /\ LicenseCount(ret.val.violations) > 0

\* C25 as stated: enforce_policy sets block_reason exactly when should_block
\* is true, and whenever the critical condition and the high condition both
\* trigger the reason names the critical condition with the critical count.
C25_CriticalReasonWhenBothTrigger ==
    ret.op = "enforce_policy" =>
        /\ (ret.val.block_reason # None) <=> ret.val.should_block
        /\ (CriticalTriggers /\ HighTriggers) =>
               ret.val.block_reason =
                   Some([cond |-> "critical", count |-> CriticalCount(ret.val.violations)])

\* C25: enforce_policy sets block_reason exactly when should_block is true;
\* when the license rule does not fire and the critical condition triggers,
\* alone or together with the high condition, the reason names the critical
\* condition with the critical count, and when only the high condition
\* triggers it names the high condition with the high count; when the
\* license rule fires the reason names the license count instead.
C25_CriticalReasonUnlessLicense ==
    ret.op = "enforce_policy" =>
        /\ (ret.val.block_reason # None) <=> ret.val.should_block
        /\ (CriticalTriggers /\ ~LicenseTriggers) =>
               ret.val.block_reason =
                   Some([cond |-> "critical", count |-> CriticalCount(ret.val.violations)])
        /\ (HighTriggers /\ ~CriticalTriggers /\ ~LicenseTriggers) =>
               ret.val.block_reason =
                   Some([cond |-> "high", count |-> HighCount(ret.val.violations)])
        /\ LicenseTriggers =>
               ret.val.block_reason =
                   Some([cond |-> "license", count |-> LicenseCount(ret.val.violations)])

\* a critical and a high violation are kept under a policy that blocks on
\* both, and no license violation is there: the reason names the one
\* critical violation
C25_Witness ==
    /\ ret.op = "enforce_policy"
    /\ CriticalTriggers /\ HighTriggers /\ ~LicenseTriggers
    /\ HighCount(ret.val.violations) = 1
    /\ ret.val.should_block
    /\ ret.val.block_reason = Some([cond |-> "critical", count |-> 1])

-----------------------------------------------------------------------------
(* Properties of the policy registry (SpecResolve) *)

\* C15: get_policy returns the policy registered under the repository's
\* name if there is one, else the one registered under the text before the
\* first "/", else the default policy; it returns a policy for every
\* repository; a registration puts its policy under its name, replacing
\* what was there and nothing else, and the default policy stays what
\* repositories without a match resolve to.
C15_ResolutionOrder ==
    /\ [](\A r \in ResolveRepos :
               LET exact == r \in DOMAIN policies
                   org == << r[1] >> \in DOMAIN policies
                   pol == get_policy(policies, r)
               IN  /\ exact => pol = policies[r]
                   /\ (~exact /\ org) => pol = policies[<< r[1] >>]
                   /\ (~exact /\ ~org) =>
                          pol = Policy(<<"default">>, "warning", TRUE, FALSE,
                                       TRUE, TRUE, FALSE)
                   /\ (ret.op = "get_policy" /\ ret.repo_name = r) => ret.val = pol)
    /\ [][ \A p \in ResolvePolicies :
             (ret'.op = "register_policy" /\ RegisterPolicy(p)) =>
                 /\ DOMAIN policies' = (DOMAIN policies) \cup {p.name}
                 /\ policies'[p.name] = p
                 /\ \A n \in DOMAIN policies : n # p.name => policies'[n] = policies[n] ]_vars

\* a repository resolved to its own policy while its organisation has
\* another one, a policy is registered under the default policy's name, and
\* a repository of another organisation got the default policy
C15_Witness ==
    /\ ret.op = "get_policy"
    /\ ret.repo_name = <<"other", "x">>
    /\ ret.val = default_policy
    /\ <<"default">> \in DOMAIN policies
    /\ policies[<<"default">>] # default_policy
    /\ <<"acme", "api">> \in DOMAIN policies /\ <<"acme">> \in DOMAIN policies
    /\ get_policy(policies, <<"acme", "api">>) # policies[<<"acme">>]

-----------------------------------------------------------------------------
(* Properties of the AuditLogger under concurrent calls (SpecThreads) *)

\* C11: when log_scan and log_override are called from several threads,
\* every record of the store is the whole text of one event, and once the
\* calls have returned the store holds the events of the in-memory list in
\* the same order, so that a replay reproduces the list.
C11_ConcurrentAppendsKeepOrder ==
    /\ CutShort(store) = {}
    /\ NoneInFlight => events = StoreEvents(store)

-----------------------------------------------------------------------------
(* Properties of the scan request handler (SpecScan) *)

\* C16: when a request is made again, unchanged, less than the cache's TTL
\* after its scan completed, analyze_code answers with the result of that
\* scan and gives no file to the rule engine.
C16_SecondScanServedFromCache ==
    [][ ( /\ ret.op = "analyze_code"
          /\ ret.val.success
          /\ ret'.op = "analyze_code"
          /\ ret'.data = ret.data
          /\ \E i \in DOMAIN events :
                 /\ events[i].scan_id = Some(ret.val.scan_id)
                 /\ IsScanEvent(events[i], ret.data)
                 /\ (now' - events[i].timestamp) * MinutesPerHour < DefaultTTLMinutes )
        => ( /\ ret'.val.success
             /\ ret'.val.scan_id = ret.val.scan_id
             /\ ret'.scan_calls = << >> ) ]_vars

\* C18: a request that lacks repo_name, pr_number, commit_hash or files is
\* answered with status 400 naming a field it lacks; no file is scanned, the
\* AI reviewer is not asked, and the events, the store, the policies and
\* the accepted overrides stay as they were.
C18_MissingFieldIsRejected ==
    [][ (ret'.op = "analyze_code" /\ ret' # ret
           /\ { "repo_name", "pr_number", "commit_hash", "files" } \ DOMAIN ret'.data # {}) =>
            LET req == ret'.data IN
              /\ ret'.val.success = FALSE
              /\ ret'.val.status_code = 400
              /\ \E k \in { "repo_name", "pr_number", "commit_hash", "files" } \ DOMAIN req :
                     ret'.val.detail = << "Missing required field", k >>
              /\ ret'.scan_calls = << >>
              /\ ret'.ai_calls = << >>
              /\ UNCHANGED <<events, store, policies, nextId, accepted>> ]_vars

\* a request without "files" rejected when the ledger already holds the
\* events of an overridden scan
C18_Witness ==
    /\ ret.op = "analyze_code"
    /\ ~ret.val.success
    /\ ret.val.status_code = 400
    /\ ret.val.detail = << "Missing required field", "files" >>
    /\ Len(events) >= 2
    /\ StoreEvents(store) = events

\* a violation as it is before the enrichment
Unenriched(violations) ==
    [ i \in DOMAIN violations |-> [ violations[i] EXCEPT !.suggested_fix = None ] ]

\* C19: for every scan, whatever the AI service answers or raises, the
\* events and the store after the request, should_block, block_reason,
\* override_applied and the kept violations of the response are the ones of
\* the same request with the AI service off; the AI reviewer is asked about
\* the kept violations of enforce_policy only; every kept violation gets a
\* suggestion, and a call that raises gets the static suggestion of its
\* rule id.
C19_EnrichmentNeverChangesDecision ==
    [][ (ret'.op = "analyze_code" /\ nextId' # nextId) =>
            LET req == ret'.data
                ai == ret'.ai
                off == analyze_code(req, AIOff)
                kept == enforce_policy(policies, analyze_files(req), req.repo_name).violations
                vs == ret'.val.violations
            IN  /\ events' = off.events
                /\ store' = off.store
                /\ ret'.val.should_block = off.response.should_block
                /\ ret'.val.block_reason = off.response.block_reason
                /\ ret'.val.override_applied = off.response.override_applied
                /\ Unenriched(vs) = Unenriched(off.response.violations)
                /\ Unenriched(vs) = kept
                /\ ret'.ai_calls = kept
                /\ \A i \in DOMAIN vs :
                       /\ vs[i].suggested_fix # None
                       /\ (~ai.use_ai \/ ReplyAt(ai, i) = "error") =>
                              vs[i].suggested_fix =
                                  Some(IF vs[i].rule_id \in StaticFixKeys
                                       THEN [ kind |-> "static", rule_id |-> vs[i].rule_id ]
                                       ELSE [ kind |-> "review" ]) ]_vars

\* a blocked scan in which the AI call for one violation raised and the
\* call for the other answered
C19_Witness ==
    /\ ret.op = "analyze_code"
    /\ ret.val.success
    /\ ret.val.should_block
    /\ \E i \in DOMAIN ret.val.violations :
           ret.val.violations[i].suggested_fix =
               Some([ kind |-> "static", rule_id |-> "SEC-001" ])
    /\ \E i \in DOMAIN ret.val.violations :
           ret.val.violations[i].suggested_fix = Some([ kind |-> "ai" ])

-----------------------------------------------------------------------------
(* Properties of the diff extraction (SpecDiff) *)

\* the position of the last piece of the line that starts at position s
RECURSIVE LineEnd(_, _)
LineEnd(d, s) ==
    IF s > Len(d) \/ d[s] = "\n" THEN s - 1 ELSE LineEnd(d, s + 1)

\* the positions at which the added lines of a diff start, headers excluded
AddedStarts(d) ==
    { s \in DOMAIN d :
        /\ s = 1 \/ d[s - 1] = "\n"
        /\ d[s] = "+"
        /\ ~(LineEnd(d, s) >= s + 2 /\ d[s + 1] = "+" /\ d[s + 2] = "+") }

\* the lines starting at the given positions, without their first piece,
\* in order and with a newline between them
RECURSIVE LinesAt(_, _)
LinesAt(d, starts) ==
    IF starts = {} THEN << >>
    ELSE LET s == CHOOSE x \in starts : \A y \in starts : x <= y
             rest == starts \ {s}
         IN  SubSeq(d, s + 1, LineEnd(d, s))
                 \o (IF rest = {} THEN << >> ELSE << "\n" >> \o LinesAt(d, rest))

\* C20: parse_diff returns the lines of the diff that start with "+" and
\* not with "+++", each without its first "+", in their order and joined by
\* newlines, and nothing else; analyze_files gives no file whose extraction
\* is empty or all whitespace to the rule engine and reports no violation
\* for it.
C20_OnlyAddedLines ==
    /\ ret.op = "parse_diff" =>
           ret.val = LinesAt(ret.diff_content, AddedStarts(ret.diff_content))
    /\ ret.op = "analyze_files" =>
           \A i \in DOMAIN ret.request.files :
               LET file == ret.request.files[i] IN
                   strip(parse_diff(file.diff, file.path)) = << >> =>
                       /\ \A j \in DOMAIN ret.scan_calls : ret.scan_calls[j] # file.path
                       /\ \A j \in DOMAIN ret.val : ret.val[j].file_path # file.path

\* a diff with a "+++" header and an added line after it
C20_Witness ==
    /\ ret.op = "parse_diff"
    /\ ret.diff_content = << "+", "+", "+", "\n", "+", "x = 1" >>
    /\ ret.val = << "x = 1" >>

-----------------------------------------------------------------------------
(* Properties of the rule engine (SpecDiff) *)

\* the category the prefix of a rule id stands for
CategoryOfRuleId(rule_id) ==
    CASE rule_id = "COMP-001" -> "compliance"
      [] rule_id = "PERF-001" -> "performance"
      [] OTHER -> "security"

\* C21: every violation the rule engine emits has the category of its rule
\* id's prefix: security for SEC-*, compliance for COMP-001, performance for
\* PERF-001.
C21_CategoryMatchesRuleId ==
    ret.op \in { "scan_code", "analyze_files" } =>
        \A i \in DOMAIN ret.val :
            ret.val[i].category = CategoryOfRuleId(ret.val[i].rule_id)

C23_LicenseDetectionInPipeline ==
    ret.op = "analyze_files" =>
        \A i \in DOMAIN ret.request.files :
            LET file == ret.request.files[i]
                added == parse_diff(file.diff, file.path)
            IN  ( /\ _is_code_file(file.path)
                  /\ check_license_violations(added, file.path, DefaultAllowedLicenses) # << >> )
                => \E j \in DOMAIN ret.val :
                       /\ ret.val[j].rule_id = "LICENSE-001"
                       /\ ret.val[j].severity = "high"
                       /\ ret.val[j].category = "license"
                       /\ ret.val[j].file_path = file.path

\* the positions at which the lines of a text start, and the n-th line
LineStarts(d) == { 1 } \cup { i + 1 : i \in { j \in DOMAIN d : d[j] = "\n" } }

NthLine(d, n) ==
    LET s == CHOOSE x \in LineStarts(d) :
                 Cardinality({ y \in LineStarts(d) : y < x }) = n - 1
    IN  SubSeq(d, s, LineEnd(d, s))

\* a line that is blank or whose first non-blank pieces are "#" or "//"
BlankOrComment(line) ==
    LET t == strip(line) IN
        \/ t = << >>
        \/ t[1] = "#"
        \/ Len(t) >= 2 /\ t[1] = "/" /\ t[2] = "/"

\* the patterns of family f that some piece of the line matches
MatchingPatterns(line, f) ==
    { k \in DOMAIN RuleFamilies[f].patterns :
        \E i \in DOMAIN line : RuleFamilies[f].patterns[k] \in MatchedBy(line[i]) }

\* C22: in the result of scan_code, each line has at most one violation per
\* rule family and at most 12 in all; a family's violation names the first
\* pattern of its table that matches the line, and every family that
\* matches a scanned line reports one.
C22_OnePerFamilyPerLine ==
    ret.op = "scan_code" =>
        \A n \in 1..Cardinality(LineStarts(ret.code)) :
            LET line == NthLine(ret.code, n)
                here == { i \in DOMAIN ret.val : ret.val[i].line_number = n }
            IN  /\ Cardinality(here) <= 12
                /\ \A f \in DOMAIN RuleFamilies :
                       LET mine == { i \in here :
                                       ret.val[i].rule_id = RuleFamilies[f].rule_id }
                           matching == MatchingPatterns(line, f)
                       IN  /\ Cardinality(mine) <= 1
                           /\ \A i \in mine :
                                  /\ matching # {}
                                  /\ ret.val[i].rule_name =
                                         RuleFamilies[f].patterns[
                                             CHOOSE k \in matching :
                                                 \A m \in matching : k <= m]
                           /\ (matching # {} /\ ~BlankOrComment(line)) => mine # {}

\* a line that two patterns of SEC-005 and a pattern of SEC-001 match
C22_Witness ==
    /\ ret.op = "scan_code"
    /\ ret.code = << "hashlib.sha1(", "hashlib.md5(", "password = \"supersecret1\"" >>
    /\ Len(ret.val) = 2
    /\ ret.val[1].rule_id = "SEC-001"
    /\ ret.val[2].rule_id = "SEC-005"
    /\ ret.val[2].rule_name = "Weak Cryptography: MD5 is insecure"

\* the order in which scan_code applies the rule families to a line
DetectionOrder ==
    << "SEC-001", "SEC-002", "SEC-003", "SEC-004", "SEC-005", "SEC-006", "SEC-007",
       "SEC-008", "COMP-001", "SEC-009", "SEC-010", "PERF-001" >>

FamilyIndex(rule_id) == CHOOSE f \in DOMAIN DetectionOrder : DetectionOrder[f] = rule_id

\* v comes before w in the order of scan_code
Before(v, w) ==
    \/ v.line_number < w.line_number
    \/ /\ v.line_number = w.line_number
       /\ FamilyIndex(v.rule_id) < FamilyIndex(w.rule_id)

\* C24: the violations of scan_code are in ascending order of line number
\* and, within a line, in the detection order of the families; a line
\* number is the 1-based position of a line of the code that is neither
\* blank nor a "#" or "//" comment and that the named pattern matches, and
\* every such line that a family matches is reported under its number; the
\* violations analyze_files returns for one file are in the same order.
C24_OrderedByLineThenFamily ==
    /\ ret.op = "scan_code" =>
           /\ \A i, j \in DOMAIN ret.val : i < j => Before(ret.val[i], ret.val[j])
           /\ \A i \in DOMAIN ret.val :
                  /\ ret.val[i].line_number \in 1..Cardinality(LineStarts(ret.code))
                  /\ LET line == NthLine(ret.code, ret.val[i].line_number) IN
                         /\ ~BlankOrComment(line)
                         /\ \E p \in DOMAIN line : ret.val[i].rule_name \in MatchedBy(line[p])
           /\ \A n \in 1..Cardinality(LineStarts(ret.code)) :
                  LET line == NthLine(ret.code, n) IN
                      (~BlankOrComment(line) /\ \E p \in DOMAIN line : MatchedBy(line[p]) # {})
                          => \E i \in DOMAIN ret.val : ret.val[i].line_number = n
    /\ ret.op = "analyze_files" =>
           \A i, j \in DOMAIN ret.val :
               (i < j /\ ret.val[i].file_path = ret.val[j].file_path)
                   => Before(ret.val[i], ret.val[j])

\* a comment line with a secret before a line with a call of hashlib.md5
C24_Witness ==
    /\ ret.op = "scan_code"
    /\ ret.code = << "#", "password = \"supersecret1\"", "\n", "hashlib.md5(" >>
    /\ Len(ret.val) = 1
    /\ ret.val[1].line_number = 2
    /\ ret.val[1].rule_id = "SEC-005"

\* C30: after any sequence of log_scan and log_override calls,
\* get_violations_summary returns as total_scans the number of scan events
\* (override events are not scans), as total_overrides the number of
\* override events, as total_blocked the number of blocked events, and as
\* total_violations, total_critical and total_high the sums of these counts
\* over the events.
C30_SummaryCountsScans ==
    ret.op = "get_violations_summary" =>
        /\ ret.val.total_scans =
               Cardinality({ i \in DOMAIN events : events[i].enforcement_action # "override" })
        /\ ret.val.total_overrides =
               Cardinality({ i \in DOMAIN events : events[i].enforcement_action = "override" })
        /\ ret.val.total_blocked = Cardinality({ i \in DOMAIN events : events[i].blocked })
        /\ ret.val.total_violations = SumOver(events, "violation_count")
        /\ ret.val.total_critical = SumOver(events, "critical_count")
        /\ ret.val.total_high = SumOver(events, "high_count")

-----------------------------------------------------------------------------
(* Properties of the ledger when its directory is loaded again (SpecReload) *)

\* C28: after any sequence of log_scan, log_override and load_audit_logs
\* calls, a load of the directory whose records are in memory included, no
\* two events of self.events have the same event_id.
C28_UniqueEventIds ==
    \A i, j \in DOMAIN events :
        i # j => events[i].event_id # events[j].event_id

-----------------------------------------------------------------------------
(* Properties of the ruleset and rule pack lookups (SpecPacks) *)

\* C27: a lookup or an activation with an unknown ruleset or industry name
\* ends with a not-found error (ValueError from get_rule_pack and
\* set_active_ruleset, status 404 from the two endpoints) and leaves the
\* registered rulesets and the active ruleset as they were; a known name
\* ends without that error.
C27_UnknownNameNotFound ==
    [][ /\ ret'.op = "set_active_ruleset" =>
               IF ret'.name \in DOMAIN manager.rulesets
               THEN ret'.raised = None /\ manager'.active_ruleset = Some(ret'.name)
               ELSE ret'.raised = Some("ValueError") /\ manager' = manager
        /\ ret'.op = "get_rule_pack" =>
               /\ manager' = manager
               /\ IF lower(ret'.name) \in RULE_PACKS
                  THEN ret'.raised = None /\ ret'.val = Some(lower(ret'.name))
                  ELSE ret'.raised = Some("ValueError")
        /\ ret'.op = "get_compliance_rules" =>
               /\ manager' = manager
               /\ (ret'.val.status_code = Some(NotFound)) <=> (lower(ret'.name) \notin RULE_PACKS)
        /\ ret'.op = "get_ruleset" =>
               /\ manager' = manager
               /\ (ret'.val.status_code = Some(NotFound)) <=> (ret'.name \notin RulesetFiles)
      ]_vars

\* with "default" active and "pci" registered too, activating a name that
\* is not registered has raised and "default" is still the active ruleset
C27_Witness ==
    /\ ret.op = "set_active_ruleset"
    /\ ret.raised = Some("ValueError")
    /\ ret.name \notin DOMAIN manager.rulesets
    /\ DOMAIN manager.rulesets = { "default", "pci" }
    /\ manager.active_ruleset = Some("default")

-----------------------------------------------------------------------------
(* Properties of the ScanCache (SpecCache) *)

\* C17: get(repo, commit) returns the value of the latest set for that pair
\* exactly when that set is less than the TTL old, leaving the cache as it
\* is; otherwise it returns None and leaves no entry under the pair's key.
\* Entries leave the cache only by such a get or by clear.
C17_GetReturnsFreshValueOfPair ==
    [][ /\ \A r \in CacheRepos, c \in CacheCommits :
             (ret'.op = "cache_get" /\ CacheGet(r, c)) =>
               LET pair == << r, c >>
                   fresh == /\ pair \in DOMAIN sets
                            /\ (now - sets[pair].timestamp) * MinutesPerHour < cache.ttl
               IN  /\ fresh => (ret'.val = Some(sets[pair].result) /\ cache' = cache)
                   /\ ~fresh => /\ ret'.val = None
                                /\ get_cache_key(r, c) \notin DOMAIN cache'.cache
        /\ (DOMAIN cache.cache) \ (DOMAIN cache'.cache) # {} =>
             \/ ret'.op \in {"cache_clear", "new_cache"}
             \/ ret'.op = "cache_get" /\ ret'.val = None ]_vars

\* C29: a set for one (repository, commit) pair leaves what get returns for
\* every other pair as it was: no two distinct pairs share a cache entry.
C29_EntriesIsolatedPerPair ==
    [][ ret'.op = "cache_set" =>
          \A r \in CacheRepos, c \in CacheCommits :
              << r, c >> # << ret'.repo_name, ret'.commit_hash >> =>
                  cache_get(cache', r, c, now).val = cache_get(cache, r, c, now).val
      ]_vars

====
